---- MODULE Spec2Model ----
(***************************************************************************)
(* Model of go-s3fs.                                                       *)
(*                                                                         *)
(* The object store client (package s3, s3Client): CreateBucket,           *)
(* HeadBucket, PutObject, GetObject, HeadObject, DeleteObject and          *)
(* DeleteBucket with the goroutines it spawns, run by one caller against   *)
(* an S3 backend whose requests may fail.  After it, each under a variable *)
(* of its own: one page of DeleteBucket with its objects counted, the      *)
(* retryer and its backoff, the inode tree built by s3Root.OnAdd, the      *)
(* S3Node handle over a stream (called by one goroutine, and by several),  *)
(* the key the object methods compose for a path, the open-count nodes of  *)
(* the loopback file system, one s3File node with its lazy content, the    *)
(* contexts of the requests of a call, and the accesses of goroutines to   *)
(* the fields of a handle.                                                 *)
(***************************************************************************)
EXTENDS Integers, Sequences, FiniteSets, TLC

(***************************************************************************)
(* Bounds of the model.                                                    *)
(***************************************************************************)
\* longest object content put by the caller
MaxLen == 1
\* most requests of one call that fail for a reason other than the state of
\* the backend
MaxFaults == 1
\* objects per ListObjectsV2 page returned by the backend
PageSize == 2

\* const MAX_GOROUTES: capacity of the result channel cos
MAX_GOROUTES == 32

(***************************************************************************)
(* Values.                                                                 *)
(***************************************************************************)
\* bucket names the caller uses: lengths 2 and 3
Names == {"ab", "abc"}

\* paths the caller uses, split on '/': "k", "/./k", "d/j", "d/../m"
Paths == { <<"k">>, <<"", ".", "k">>, <<"d", "j">>, <<"d", "..", "m">> }

\* byte values and the object contents the caller puts
Bytes == {7}
Contents == UNION { [1..n -> Bytes] : n \in 0..MaxLen }

\* the error values of the package, by their message
nil == "nil"
ErrInvalidBucketName == "Invalid Bucket Name"
ErrBucketExisted == "Bucket Does not Exists"
\* the error of GetObject when fewer or more bytes arrive than declared
ErrUnknownRGW == "Unknown Error In Ceph RGW"

\* the errors the backend answers with
NoSuchBucket == "NoSuchBucket"
NoSuchKey == "NoSuchKey"
NotFound == "NotFound"
BucketNotEmpty == "BucketNotEmpty"
BucketAlreadyOwnedByYou == "BucketAlreadyOwnedByYou"
\* a request that failed for any other reason (network, 5xx, retries used up)
RequestError == "RequestError"

\* no object under a key; no *Object / *Bucket returned
NoObject == [present |-> FALSE, data |-> <<>>]
NoValue == [none |-> TRUE]
\* an object of the backend with its content
Stored(data) == [present |-> TRUE, data |-> data]

(***************************************************************************)
(* filepath.Clean(fmt.Sprintf("./%s", path)) on a path given as its        *)
(* '/'-separated components; the result is the list of components of the   *)
(* cleaned path (<<".">> for the path ".").                                *)
(***************************************************************************)
RECURSIVE CleanFrom(_, _)
CleanFrom(comps, acc) ==
  IF comps = <<>> THEN acc
  ELSE LET c == Head(comps)
           rest == Tail(comps)
       IN IF c = "" \/ c = "." THEN CleanFrom(rest, acc)
          ELSE IF c = ".."
               THEN IF acc # <<>> /\ acc[Len(acc)] # ".."
                    THEN CleanFrom(rest, SubSeq(acc, 1, Len(acc) - 1))
                    ELSE CleanFrom(rest, Append(acc, ".."))
               ELSE CleanFrom(rest, Append(acc, c))

CleanPath(path) ==
  LET c == CleanFrom(<<".">> \o path, <<>>)
  IN IF c = <<>> THEN <<".">> ELSE c

\* filepath.Split(cpath): the directory part and the file name
SplitDir(cpath) == SubSeq(cpath, 1, Len(cpath) - 1)
SplitFile(cpath) == cpath[Len(cpath)]

\* the keys of the backend in the order ListObjectsV2 lists them
KeyOrder == << <<"d", "j">>, <<"k">>, <<"m">> >>
Keys == { KeyOrder[i] : i \in 1..Len(KeyOrder) }

(***************************************************************************)
(* The S3 backend behind c.client / c.downloader.  Every request takes a   *)
(* flag fault: the request fails with RequestError and changes nothing.    *)
(* A request is logged as [req, bucket, key, err].                         *)
(***************************************************************************)
Req(r, b, k, e) == [req |-> r, bucket |-> b, key |-> k, err |-> e]

EmptyBucket == [k \in Keys |-> NoObject]

\* c.client.HeadBucket
S3HeadBucket(bk, b, fault) ==
  IF fault THEN RequestError ELSE IF b \in bk THEN nil ELSE NotFound

\* c.client.CreateBucket
S3CreateBucket(bk, b, fault) ==
  IF fault THEN [err |-> RequestError, buckets |-> bk]
  ELSE IF b \in bk THEN [err |-> BucketAlreadyOwnedByYou, buckets |-> bk]
  ELSE [err |-> nil, buckets |-> bk \cup {b}]

\* c.client.DeleteBucket
S3DeleteBucket(bk, st, b, fault) ==
  IF fault THEN [err |-> RequestError, buckets |-> bk]
  ELSE IF b \notin bk THEN [err |-> NoSuchBucket, buckets |-> bk]
  ELSE IF st[b] # EmptyBucket THEN [err |-> BucketNotEmpty, buckets |-> bk]
  ELSE [err |-> nil, buckets |-> bk \ {b}]

\* c.client.PutObject
S3PutObject(bk, st, b, k, data, fault) ==
  IF fault THEN [err |-> RequestError, store |-> st]
  ELSE IF b \notin bk THEN [err |-> NoSuchBucket, store |-> st]
  ELSE [err |-> nil, store |-> [st EXCEPT ![b][k] = Stored(data)]]

\* c.client.HeadObject: gotOutput.ContentLength
S3HeadObject(bk, st, b, k, fault) ==
  IF fault THEN [err |-> RequestError, ContentLength |-> 0]
  ELSE IF b \notin bk \/ k \notin Keys \/ st[b][k] = NoObject
       THEN [err |-> NotFound, ContentLength |-> 0]
  ELSE [err |-> nil, ContentLength |-> Len(st[b][k].data)]

\* c.downloader.Download: the bytes written to the buffer and their number
S3Download(bk, st, b, k, fault) ==
  IF fault THEN [err |-> RequestError, numBytes |-> 0, data |-> <<>>]
  ELSE IF b \notin bk THEN [err |-> NoSuchBucket, numBytes |-> 0, data |-> <<>>]
  ELSE IF k \notin Keys \/ st[b][k] = NoObject
       THEN [err |-> NoSuchKey, numBytes |-> 0, data |-> <<>>]
  ELSE [err |-> nil, numBytes |-> Len(st[b][k].data),
        data |-> st[b][k].data]

\* c.client.DeleteObject
S3DeleteObject(bk, st, b, k, fault) ==
  IF fault THEN [err |-> RequestError, store |-> st]
  ELSE IF b \notin bk THEN [err |-> NoSuchBucket, store |-> st]
  ELSE IF k \notin Keys THEN [err |-> nil, store |-> st]
  ELSE [err |-> nil, store |-> [st EXCEPT ![b][k] = NoObject]]

\* the positions in KeyOrder of the objects of bucket b after position tok
RECURSIVE ListedFrom(_, _, _)
ListedFrom(st, b, i) ==
  IF i > Len(KeyOrder) THEN <<>>
  ELSE IF st[b][KeyOrder[i]] # NoObject
       THEN <<i>> \o ListedFrom(st, b, i + 1)
       ELSE ListedFrom(st, b, i + 1)

\* c.client.ListObjectsV2: one page of at most PageSize keys after the
\* request's token; ContinuationToken echoes the request's token and
\* NextContinuationToken is the token of the following page
S3ListObjectsV2(bk, st, b, tok, fault) ==
  LET none == [err |-> nil, Contents |-> <<>>, IsTruncated |-> FALSE,
               ContinuationToken |-> tok, NextContinuationToken |-> 0]
  IN IF fault THEN [none EXCEPT !.err = RequestError]
     ELSE IF b \notin bk THEN [none EXCEPT !.err = NoSuchBucket]
     ELSE LET all == ListedFrom(st, b, tok + 1)
              n == IF Len(all) < PageSize THEN Len(all) ELSE PageSize
              page == SubSeq(all, 1, n)
          IN [none EXCEPT !.Contents = [i \in 1..n |-> KeyOrder[page[i]]],
                          !.IsTruncated = Len(all) > n,
                          !.NextContinuationToken =
                             IF Len(all) > n THEN page[n] ELSE 0]

(***************************************************************************)
(* The methods of s3Client that run in one step, as functions of the       *)
(* backend state and of the faults of the requests they make.  Each gives  *)
(* what the method returns, the requests it issued and the backend state   *)
(* it leaves.                                                              *)
(***************************************************************************)
\* HeadBucket: (true, nil) or (false, err)
HeadBucket(bk, b, fault) ==
  LET e == S3HeadBucket(bk, b, fault)
  IN [ok |-> e = nil, err |-> e, calls |-> << Req("HeadBucket", b, <<>>, e) >>]

\* validateBucket with the length test off by one
validateBucket_ShortByOne(bk, b, fault) ==
  IF Len(b) < 2 THEN [r |-> -1, calls |-> <<>>]
  ELSE LET h == HeadBucket(bk, b, fault)
       IN IF h.err # nil THEN [r |-> 0, calls |-> h.calls]
          ELSE [r |-> 1, calls |-> h.calls]

\* validateBucket: -1 for a short name without asking the backend, else 1
\* when HeadBucket returns no error and 0 when it returns one
validateBucket(bk, b, fault) ==
  IF Len(b) <= 2 THEN [r |-> -1, calls |-> <<>>]
  ELSE LET h == HeadBucket(bk, b, fault)
       IN IF h.err # nil THEN [r |-> 0, calls |-> h.calls]
          ELSE [r |-> 1, calls |-> h.calls]

\* &Bucket{Name: name}
Bucket(b) == [Name |-> b]

\* &Object{Bucket: bucket, Name: file_name, Prefix: dir}: Size and Data are
\* never assigned and keep their zero value
Object(b, cpath) ==
  [Bucket |-> b, Name |-> SplitFile(cpath), Prefix |-> SplitDir(cpath),
   Size |-> 0, Data |-> 0]

\* CreateBucket without the branch that returns ErrBucketExisted
CreateBucket_NoExistedBranch(bk, b, f1, f2, f3) ==
  LET v1 == validateBucket(bk, b, f1)
      v2 == validateBucket(bk, b, f2)
      c == S3CreateBucket(bk, b, f3)
      made == v1.calls \o v2.calls \o << Req("CreateBucket", b, <<>>, c.err) >>
  IN IF v1.r = -1
     THEN [err |-> ErrInvalidBucketName, val |-> NoValue, calls |-> v1.calls,
           buckets |-> bk]
     ELSE IF c.err # nil
     THEN [err |-> c.err, val |-> NoValue, calls |-> made, buckets |-> bk]
     ELSE [err |-> nil, val |-> Bucket(b), calls |-> made,
           buckets |-> c.buckets]

\* CreateBucket that does not look at the error of the create request
CreateBucket_ErrIgnored(bk, b, f1, f2, f3) ==
  LET v1 == validateBucket(bk, b, f1)
      v2 == validateBucket(bk, b, f2)
      c == S3CreateBucket(bk, b, f3)
      made == v1.calls \o v2.calls \o << Req("CreateBucket", b, <<>>, c.err) >>
  IN IF v1.r = -1
     THEN [err |-> ErrInvalidBucketName, val |-> NoValue, calls |-> v1.calls,
           buckets |-> bk]
     ELSE IF v2.r = 1
     THEN [err |-> ErrBucketExisted, val |-> NoValue,
           calls |-> v1.calls \o v2.calls, buckets |-> bk]
     ELSE [err |-> nil, val |-> Bucket(b), calls |-> made,
           buckets |-> c.buckets]

\* CreateBucket: validateBucket is called once for each comparison
CreateBucket(bk, b, f1, f2, f3) ==
  LET v1 == validateBucket(bk, b, f1)
      v2 == validateBucket(bk, b, f2)
      c == S3CreateBucket(bk, b, f3)
      made == v1.calls \o v2.calls \o << Req("CreateBucket", b, <<>>, c.err) >>
  IN IF v1.r = -1
     THEN [err |-> ErrInvalidBucketName, val |-> NoValue, calls |-> v1.calls,
           buckets |-> bk]
     ELSE IF v2.r = 1
     THEN [err |-> ErrBucketExisted, val |-> NoValue,
           calls |-> v1.calls \o v2.calls, buckets |-> bk]
     ELSE IF c.err # nil
     THEN [err |-> c.err, val |-> NoValue, calls |-> made, buckets |-> bk]
     ELSE [err |-> nil, val |-> Bucket(b), calls |-> made,
           buckets |-> c.buckets]

\* PutObject
PutObject(bk, st, b, path, data, f1, f2) ==
  LET v == validateBucket(bk, b, f1)
      cpath == CleanPath(path)
      p == S3PutObject(bk, st, b, cpath, data, f2)
      made == v.calls \o << Req("PutObject", b, cpath, p.err) >>
  IN IF v.r # 1
     THEN [err |-> ErrInvalidBucketName, val |-> NoValue, calls |-> v.calls,
           store |-> st]
     ELSE IF p.err # nil
     THEN [err |-> p.err, val |-> NoValue, calls |-> made, store |-> st]
     ELSE [err |-> nil, val |-> Object(b, cpath), calls |-> made,
           store |-> p.store]

\* HeadObject that returns (0, nil) also when the request failed
HeadObject_ErrDropped(bk, st, b, path, f1, f2) ==
  LET v == validateBucket(bk, b, f1)
      cpath == CleanPath(path)
      h == S3HeadObject(bk, st, b, cpath, f2)
      made == v.calls \o << Req("HeadObject", b, cpath, h.err) >>
  IN IF v.r # 1 THEN [n |-> 0, err |-> nil, calls |-> v.calls]
     ELSE IF h.err # nil THEN [n |-> 0, err |-> nil, calls |-> made]
     ELSE [n |-> h.ContentLength, err |-> nil, calls |-> made]

\* HeadObject: (0, nil) when validateBucket is not 1
HeadObject(bk, st, b, path, f1, f2) ==
  LET v == validateBucket(bk, b, f1)
      cpath == CleanPath(path)
      h == S3HeadObject(bk, st, b, cpath, f2)
      made == v.calls \o << Req("HeadObject", b, cpath, h.err) >>
  IN IF v.r # 1 THEN [n |-> 0, err |-> nil, calls |-> v.calls]
     ELSE IF h.err # nil THEN [n |-> 0, err |-> h.err, calls |-> made]
     ELSE [n |-> h.ContentLength, err |-> nil, calls |-> made]

\* GetObject without the comparison of numBytes with contentLength
GetObject_NoLengthCheck(bk, st, b, path, f1, f2, f3, f4) ==
  LET v == validateBucket(bk, b, f1)
      cpath == CleanPath(path)
      h == HeadObject(bk, st, b, path, f2, f3)
      d == S3Download(bk, st, b, cpath, f4)
      made == v.calls \o h.calls \o << Req("GetObject", b, cpath, d.err) >>
  IN IF v.r # 1
     THEN [err |-> ErrInvalidBucketName, val |-> NoValue, calls |-> v.calls]
     ELSE IF h.err # nil
     THEN [err |-> h.err, val |-> NoValue, calls |-> v.calls \o h.calls]
     ELSE IF d.err = NoSuchKey
     THEN [err |-> nil, val |-> Object(b, cpath), calls |-> made]
     ELSE IF d.err # nil
     THEN [err |-> d.err, val |-> NoValue, calls |-> made]
     ELSE [err |-> nil, val |-> Object(b, cpath), calls |-> made]

\* GetObject: HeadObject for the length, then the download; the bytes
\* downloaded into buf are not part of what is returned
GetObject(bk, st, b, path, f1, f2, f3, f4) ==
  LET v == validateBucket(bk, b, f1)
      cpath == CleanPath(path)
      h == HeadObject(bk, st, b, path, f2, f3)
      d == S3Download(bk, st, b, cpath, f4)
      made == v.calls \o h.calls \o << Req("GetObject", b, cpath, d.err) >>
  IN IF v.r # 1
     THEN [err |-> ErrInvalidBucketName, val |-> NoValue, calls |-> v.calls]
     ELSE IF h.err # nil
     THEN [err |-> h.err, val |-> NoValue, calls |-> v.calls \o h.calls]
     ELSE IF d.err = NoSuchKey
     THEN [err |-> nil, val |-> Object(b, cpath), calls |-> made]
     ELSE IF d.err # nil
     THEN [err |-> d.err, val |-> NoValue, calls |-> made]
     ELSE IF d.numBytes # h.n
     THEN [err |-> ErrUnknownRGW, val |-> NoValue, calls |-> made]
     ELSE [err |-> nil, val |-> Object(b, cpath), calls |-> made]

\* DeleteObject
DeleteObject(bk, st, b, path, f1, f2) ==
  LET v == validateBucket(bk, b, f1)
      cpath == CleanPath(path)
      d == S3DeleteObject(bk, st, b, cpath, f2)
      made == v.calls \o << Req("DeleteObject", b, cpath, d.err) >>
  IN IF v.r # 1
     THEN [err |-> ErrInvalidBucketName, calls |-> v.calls, store |-> st]
     ELSE IF d.err # nil
     THEN [err |-> d.err, calls |-> made, store |-> st]
     ELSE [err |-> nil, calls |-> made, store |-> d.store]

VARIABLES
  buckets,    \* backend: the names of the buckets that exist
  store,      \* backend: store[b][k] is the content of object k of bucket b
  pc,         \* the caller: "idle", inside DeleteBucket, or "exited"
  ret,        \* what the last finished call returned
  calls,      \* the backend requests of the current (or last) call, in order
  name,       \* DeleteBucket: its bucket argument
  inV2,       \* DeleteBucket: inV2.ContinuationToken
  out,        \* DeleteBucket: the page ListObjectsV2 returned
  idx,        \* DeleteBucket: position of item in out.Contents
  wg,         \* DeleteBucket: the counter of the sync.WaitGroup
  cos,        \* DeleteBucket: the values buffered in the channel cos
  cosClosed,  \* DeleteBucket: number of close(cos) executed
  workers,    \* DeleteBucket: the goroutines running DeleteObject
  closers,    \* DeleteBucket: the goroutines running wg.Wait(); close(cos)
  created     \* history: the names CreateBucket returned a Bucket for and
              \* no DeleteBucket has removed since

\* the other parts of the program, each one record of its fields
VARIABLES
  pool,       \* one page of DeleteBucket with objects counted, not named
  retry,      \* one backend call under the retryer of NewS3Client
  backoff,    \* the last call of ExponentialJitterBackoff.BackoffDelay
  tree,       \* the inode tree under s3Root and the run of OnAdd
  sno,        \* one S3Node handle and the streams it was given
  race,       \* one S3Node handle with goroutines that call Read and Close
  norm,       \* the keys the object methods compose for one path
  oc,         \* the open-count nodes of a directory and the requests on them
  lazy,       \* one s3File node, its content and the requests on it
  cx,         \* one call of a client method and the contexts of its requests
  acc         \* the accesses of goroutines to the fields of one handle

clientVars == << buckets, store, pc, ret, calls, name, inV2, out, idx, wg,
                 cos, cosClosed, workers, closers, created >>

\* what a step of the client leaves alone
nonClient == << pool, retry, backoff, tree, sno, race, norm, oc, lazy, cx,
                acc >>

vars == << clientVars, nonClient >>

\* ret while a call is running, and after log.Fatalf has ended the process
Running == "running"
Exited == "exited"

NoPage == [err |-> nil, Contents |-> <<>>, IsTruncated |-> FALSE,
           ContinuationToken |-> 0, NextContinuationToken |-> 0]

\* the requests among the n a call can make that fail, at most MaxFaults
FaultSets(n) == { F \in SUBSET (1..n) : Cardinality(F) <= MaxFaults }

\* a finished call: the method, its arguments and what it returned
Return(op, b, path, data, e, v) ==
  [op |-> op, bucket |-> b, path |-> path, data |-> data, err |-> e,
   val |-> v]

\* the locals of DeleteBucket as a call starts
ResetLocals(b) ==
  /\ name' = b
  /\ inV2' = 0
  /\ out' = NoPage
  /\ idx' = 0
  /\ wg' = 0
  /\ cos' = <<>>
  /\ cosClosed' = 0
  /\ workers' = <<>>
  /\ closers' = <<>>

(***************************************************************************)
(* The caller calls a method that runs in one step.                        *)
(***************************************************************************)
CallCreateBucket ==
  /\ pc = "idle"
  /\ \E b \in Names, F \in FaultSets(3) :
       LET r == CreateBucket(buckets, b, 1 \in F, 2 \in F, 3 \in F)
       IN /\ buckets' = r.buckets
          /\ ret' = Return("CreateBucket", b, <<>>, <<>>, r.err, r.val)
          /\ calls' = r.calls
          /\ created' = IF r.err = nil THEN created \cup {b} ELSE created
          /\ ResetLocals(b)
  /\ UNCHANGED << store, pc >>
  /\ UNCHANGED nonClient

CallHeadBucket ==
  /\ pc = "idle"
  /\ \E b \in Names, f \in BOOLEAN :
       LET r == HeadBucket(buckets, b, f)
       IN /\ ret' = Return("HeadBucket", b, <<>>, <<>>, r.err, [ok |-> r.ok])
          /\ calls' = r.calls
          /\ ResetLocals(b)
  /\ UNCHANGED << buckets, store, pc, created >>
  /\ UNCHANGED nonClient

CallPutObject ==
  /\ pc = "idle"
  /\ \E b \in Names, path \in Paths, data \in Contents, F \in FaultSets(2) :
       LET r == PutObject(buckets, store, b, path, data, 1 \in F, 2 \in F)
       IN /\ store' = r.store
          /\ ret' = Return("PutObject", b, path, data, r.err, r.val)
          /\ calls' = r.calls
          /\ ResetLocals(b)
  /\ UNCHANGED << buckets, pc, created >>
  /\ UNCHANGED nonClient

CallHeadObject ==
  /\ pc = "idle"
  /\ \E b \in Names, path \in Paths, F \in FaultSets(2) :
       LET r == HeadObject(buckets, store, b, path, 1 \in F, 2 \in F)
       IN /\ ret' = Return("HeadObject", b, path, <<>>, r.err, [n |-> r.n])
          /\ calls' = r.calls
          /\ ResetLocals(b)
  /\ UNCHANGED << buckets, store, pc, created >>
  /\ UNCHANGED nonClient

CallGetObject ==
  /\ pc = "idle"
  /\ \E b \in Names, path \in Paths, F \in FaultSets(4) :
       LET r == GetObject(buckets, store, b, path,
                          1 \in F, 2 \in F, 3 \in F, 4 \in F)
       IN /\ ret' = Return("GetObject", b, path, <<>>, r.err, r.val)
          /\ calls' = r.calls
          /\ ResetLocals(b)
  /\ UNCHANGED << buckets, store, pc, created >>
  /\ UNCHANGED nonClient

CallDeleteObject ==
  /\ pc = "idle"
  /\ \E b \in Names, path \in Paths, F \in FaultSets(2) :
       LET r == DeleteObject(buckets, store, b, path, 1 \in F, 2 \in F)
       IN /\ store' = r.store
          /\ ret' = Return("DeleteObject", b, path, <<>>, r.err, NoValue)
          /\ calls' = r.calls
          /\ ResetLocals(b)
  /\ UNCHANGED << buckets, pc, created >>
  /\ UNCHANGED nonClient

(***************************************************************************)
(* DeleteBucket, statement by statement, with its goroutines.              *)
(***************************************************************************)
\* validateBucket(ctx, name) != 1: return ErrInvalidBucketName
DeleteBucketEnter ==
  /\ pc = "idle"
  /\ \E b \in Names, f \in BOOLEAN :
       LET v == validateBucket(buckets, b, f)
       IN /\ calls' = v.calls
          /\ ResetLocals(b)
          /\ IF v.r # 1
             THEN /\ pc' = "idle"
                  /\ ret' = Return("DeleteBucket", b, <<>>, <<>>,
                                   ErrInvalidBucketName, NoValue)
             ELSE /\ pc' = "list"
                  /\ ret' = Return("DeleteBucket", b, <<>>, <<>>, Running,
                                   NoValue)
  /\ UNCHANGED << buckets, store, created >>
  /\ UNCHANGED nonClient

\* out, err := c.client.ListObjectsV2(ctx, inV2); log.Fatalf on an error;
\* var wg sync.WaitGroup; cos := make(chan error, MAX_GOROUTES)
DeleteBucketList ==
  /\ pc = "list"
  /\ \E f \in BOOLEAN :
       LET o == S3ListObjectsV2(buckets, store, name, inV2, f)
       IN /\ calls' = Append(calls, Req("ListObjectsV2", name, <<>>, o.err))
          /\ out' = o
          /\ IF o.err # nil
             THEN /\ pc' = Exited
                  /\ ret' = [ret EXCEPT !.err = Exited]
                  /\ UNCHANGED << idx, wg, cos, cosClosed >>
             ELSE /\ pc' = "loop"
                  /\ idx' = 1
                  /\ wg' = 0
                  /\ cos' = <<>>
                  /\ cosClosed' = 0
                  /\ UNCHANGED ret
  /\ UNCHANGED << buckets, store, name, inV2, workers, closers, created >>
  /\ UNCHANGED nonClient

\* the loop that starts the goroutines of every item and waits for none of
\* them: no range over cos, no wg.Wait() after the last item
DeleteBucketLoop_NoWait ==
  /\ pc = "loop"
  /\ IF idx <= Len(out.Contents)
     THEN /\ wg' = wg + 1
          /\ workers' = Append(workers, [key |-> out.Contents[idx],
                                         state |-> "run", err |-> nil])
          /\ closers' = Append(closers, "wait")
          /\ idx' = idx + 1
          /\ UNCHANGED << pc, inV2 >>
     ELSE /\ IF out.IsTruncated
             THEN /\ inV2' = out.ContinuationToken
                  /\ pc' = "list"
             ELSE /\ pc' = "remove"
                  /\ UNCHANGED inV2
          /\ UNCHANGED << wg, workers, closers, idx >>
  /\ UNCHANGED << buckets, store, ret, calls, name, out, cos, cosClosed,
                  created >>
  /\ UNCHANGED nonClient

\* for _, item := range out.Contents: wg.Add(1) and the two go statements;
\* after the last item the loop is left for wg.Wait()
DeleteBucketLoop ==
  /\ pc = "loop"
  /\ IF idx <= Len(out.Contents)
     THEN /\ wg' = wg + 1
          /\ workers' = Append(workers, [key |-> out.Contents[idx],
                                         state |-> "run", err |-> nil])
          /\ closers' = Append(closers, "wait")
          /\ pc' = "range"
     ELSE /\ pc' = "wait"
          /\ UNCHANGED << wg, workers, closers >>
  /\ UNCHANGED << buckets, store, ret, calls, name, inV2, out, idx, cos,
                  cosClosed, created >>
  /\ UNCHANGED nonClient

\* go func() { cos <- c.DeleteObject(ctx, user, name, aws.ToString(item.Key)) }()
\* a send on a closed channel panics
WorkerDelete ==
  /\ pc \notin {"idle", Exited} \/ ret.op = "DeleteBucket"
  /\ \E i \in 1..Len(workers), F \in FaultSets(2) :
       /\ workers[i].state = "run"
       /\ Len(cos) < MAX_GOROUTES \/ cosClosed > 0
       /\ LET d == DeleteObject(buckets, store, name, workers[i].key,
                              1 \in F, 2 \in F)
          IN /\ store' = d.store
             /\ calls' = calls \o d.calls
             /\ workers' = [workers EXCEPT ![i].state = "done",
                                           ![i].err = d.err]
             /\ IF cosClosed > 0
                THEN /\ pc' = Exited
                     /\ ret' = [ret EXCEPT !.err = Exited]
                     /\ cos' = cos
                ELSE /\ cos' = Append(cos, d.err)
                     /\ UNCHANGED << pc, ret >>
  /\ UNCHANGED << buckets, name, inV2, out, idx, wg, cosClosed, closers,
                  created >>
  /\ UNCHANGED nonClient

\* wg.Wait() returns when the counter is 0: in DeleteBucket after the loop
\* (waiter 0), then IsTruncated decides between the next page and the
\* removal; in a goroutine (waiter j), which then closes cos
WgWait ==
  /\ wg = 0
  /\ \E w \in (IF pc = "wait" THEN {0} ELSE {}) \cup
              { j \in 1..Len(closers) : closers[j] = "wait" /\ pc # Exited } :
       IF w = 0
       THEN /\ IF out.IsTruncated
               THEN /\ inV2' = out.ContinuationToken
                    /\ pc' = "list"
               ELSE /\ pc' = "remove"
                    /\ UNCHANGED inV2
            /\ UNCHANGED << closers, cosClosed, ret >>
       ELSE /\ closers' = [closers EXCEPT ![w] = "done"]
            /\ cosClosed' = cosClosed + 1
            /\ IF cosClosed > 0
               THEN /\ pc' = Exited
                    /\ ret' = [ret EXCEPT !.err = Exited]
               ELSE UNCHANGED << pc, ret >>
            /\ UNCHANGED inV2
  /\ UNCHANGED << buckets, store, calls, name, out, idx, wg, cos, workers,
                  created >>
  /\ UNCHANGED nonClient

\* the range loop that logs a failed delete and goes on to the next item
DeleteBucketRange_GoesOn ==
  /\ pc = "range"
  /\ cos # <<>> \/ cosClosed > 0
  /\ IF cos # <<>>
     THEN /\ cos' = Tail(cos)
          /\ idx' = idx + 1
          /\ pc' = "loop"
          /\ UNCHANGED ret
     ELSE /\ idx' = idx + 1
          /\ pc' = "loop"
          /\ UNCHANGED << cos, ret >>
  /\ UNCHANGED << buckets, store, calls, name, inV2, out, wg, cosClosed,
                  workers, closers, created >>
  /\ UNCHANGED nonClient

\* for ret := range cos: a value that is not nil returns err, the variable
\* assigned by ListObjectsV2; the loop ends when cos is closed and empty
DeleteBucketRange ==
  /\ pc = "range"
  /\ cos # <<>> \/ cosClosed > 0
  /\ IF cos # <<>>
     THEN /\ cos' = Tail(cos)
          /\ IF Head(cos) # nil
             THEN /\ pc' = "idle"
                  /\ ret' = [ret EXCEPT !.err = out.err]
             ELSE UNCHANGED << pc, ret >>
          /\ UNCHANGED idx
     ELSE /\ idx' = idx + 1
          /\ pc' = "loop"
          /\ UNCHANGED << cos, ret >>
  /\ UNCHANGED << buckets, store, calls, name, inV2, out, wg, cosClosed,
                  workers, closers, created >>
  /\ UNCHANGED nonClient

\* _, err := c.client.DeleteBucket(ctx, input); return err or nil
DeleteBucketRemove ==
  /\ pc = "remove"
  /\ \E f \in BOOLEAN :
       LET r == S3DeleteBucket(buckets, store, name, f)
       IN /\ buckets' = r.buckets
          /\ calls' = Append(calls, Req("DeleteBucket", name, <<>>, r.err))
          /\ ret' = [ret EXCEPT !.err = r.err]
          /\ created' = IF r.err = nil THEN created \ {name} ELSE created
  /\ pc' = "idle"
  /\ UNCHANGED << store, name, inV2, out, idx, wg, cos, cosClosed, workers,
                  closers >>
  /\ UNCHANGED nonClient

DeleteBucketStep ==
  \/ DeleteBucketList
  \/ DeleteBucketLoop
  \/ WorkerDelete
  \/ WgWait
  \/ DeleteBucketRange
  \/ DeleteBucketRemove

(***************************************************************************)
(* One page of DeleteBucket with its objects counted: the page holds       *)
(* pool.n items, as many as the backend returns, and what is kept of each  *)
(* goroutine is how many of them are where.                                *)
(***************************************************************************)
\* most objects of a page
MaxPage == 34

PoolIdle ==
  [pc |-> "idle", n |-> 0, idx |-> 0, wg |-> 0, cos |-> <<>>,
   cosClosed |-> 0, running |-> 0, waiting |-> 0, failed |-> 0]

nonPool == << clientVars, retry, backoff, tree, sno, race, norm, oc, lazy,
              cx, acc >>

\* out, err := c.client.ListObjectsV2(ctx, inV2) answers with a page of n
\* items; var wg sync.WaitGroup; cos := make(chan error, MAX_GOROUTES)
PoolList ==
  /\ pool.pc = "idle"
  /\ \E n \in 0..MaxPage :
       pool' = [PoolIdle EXCEPT !.pc = "loop", !.n = n, !.idx = 1]
  /\ UNCHANGED nonPool

\* the loop over the items that starts the goroutines of every item and
\* reads no result
PoolLoop_NoRange ==
  /\ pool.pc = "loop"
  /\ IF pool.idx <= pool.n
     THEN pool' = [pool EXCEPT !.wg = @ + 1, !.running = @ + 1,
                               !.waiting = @ + 1, !.idx = @ + 1]
     ELSE pool' = [pool EXCEPT !.pc = "wait"]
  /\ UNCHANGED nonPool

\* for _, item := range out.Contents: wg.Add(1) and the two go statements,
\* then the range over cos; after the last item wg.Wait()
PoolLoop ==
  /\ pool.pc = "loop"
  /\ IF pool.idx <= pool.n
     THEN pool' = [pool EXCEPT !.wg = @ + 1, !.running = @ + 1,
                               !.waiting = @ + 1, !.pc = "range"]
     ELSE pool' = [pool EXCEPT !.pc = "wait"]
  /\ UNCHANGED nonPool

\* go func() { cos <- c.DeleteObject(...) }(): the delete ends with nil or
\* with an error and its result is sent; a send on a closed channel panics
PoolWorker ==
  /\ pool.pc \notin {"idle", Exited}
  /\ pool.running > 0
  /\ Len(pool.cos) < MAX_GOROUTES \/ pool.cosClosed > 0
  /\ \E e \in {nil} \cup (IF pool.failed < MaxFaults THEN {RequestError}
                          ELSE {}) :
       IF pool.cosClosed > 0
       THEN pool' = [pool EXCEPT !.running = @ - 1, !.pc = Exited]
       ELSE pool' = [pool EXCEPT !.running = @ - 1,
                                 !.cos = Append(@, e),
                                 !.failed = IF e = nil THEN @ ELSE @ + 1]
  /\ UNCHANGED nonPool

\* wg.Wait() returns when the counter is 0: after the loop (waiter 0) or in
\* a goroutine (waiter 1), which then closes cos; closing it twice panics
PoolWgWait ==
  /\ pool.wg = 0
  /\ \E w \in (IF pool.pc = "wait" THEN {0} ELSE {}) \cup
              (IF pool.waiting > 0 /\ pool.pc # Exited THEN {1} ELSE {}) :
       IF w = 0
       THEN pool' = [pool EXCEPT !.pc = "done"]
       ELSE pool' = [pool EXCEPT !.waiting = @ - 1,
                                 !.cosClosed = @ + 1,
                                 !.pc = IF pool.cosClosed > 0 THEN Exited
                                        ELSE @]
  /\ UNCHANGED nonPool

\* for ret := range cos: a value that is not nil returns; the loop ends
\* when cos is closed and empty
PoolRange ==
  /\ pool.pc = "range"
  /\ pool.cos # <<>> \/ pool.cosClosed > 0
  /\ IF pool.cos # <<>>
     THEN pool' = [pool EXCEPT !.cos = Tail(@),
                               !.pc = IF Head(pool.cos) # nil
                                      THEN "returned" ELSE @]
     ELSE pool' = [pool EXCEPT !.idx = @ + 1, !.pc = "loop"]
  /\ UNCHANGED nonPool

(***************************************************************************)
(* One backend call under the retryer NewS3Client installs with            *)
(* config.WithRetryer: retry.NewStandard with o.MaxAttempts = 20.  The     *)
(* retry loop itself is not part of the package; it is taken as the        *)
(* specification describes it: only a transient error triggers a retry,    *)
(* up to the attempt cap, then the error is surfaced unchanged.            *)
(***************************************************************************)
\* the options of retry.NewStandard when NewS3Client sets none of them: the
\* library's attempt cap of 3 and its token bucket
StandardOptions_Unset == [MaxAttempts |-> 3, RateLimiter |-> "TokenRateLimit"]

\* o.MaxAttempts = 20; o.RateLimiter = NoOpRateLimit{}
StandardOptions == [MaxAttempts |-> 20, RateLimiter |-> "NoOpRateLimit"]

MaxAttempts == StandardOptions.MaxAttempts

\* the errors of one attempt: transient ones, and the kinds never retried
\* (not-found, already-exists, validation, fatal)
SlowDown == "SlowDown"
InvalidArgument == "InvalidArgument"
FatalError == "FatalError"
Retryable == {RequestError, SlowDown}
NonRetryable == {NotFound, BucketAlreadyOwnedByYou, InvalidArgument,
                 FatalError}

RetryIdle ==
  [pc |-> "idle", attempts |-> 0, first |-> nil, err |-> nil, ret |-> nil]

nonRetry == << clientVars, pool, backoff, tree, sno, race, norm, oc, lazy,
               cx, acc >>

\* a method of s3Client issues a request through c.client
RetryCall ==
  /\ retry.pc \in {"idle", "done"}
  /\ retry' = [RetryIdle EXCEPT !.pc = "attempt"]
  /\ UNCHANGED nonRetry

\* one attempt of the request: it succeeds, or fails with an error that is
\* retried while attempts are left, or fails with an error that ends the call
RetryAttempt ==
  /\ retry.pc = "attempt"
  /\ \E e \in {nil} \cup Retryable \cup NonRetryable :
       LET n == retry.attempts + 1
           again == e \in Retryable /\ n < MaxAttempts
       IN retry' = [pc |-> IF again THEN "backoff" ELSE "done",
                    attempts |-> n,
                    first |-> IF n = 1 THEN e ELSE retry.first,
                    err |-> e,
                    ret |-> IF again THEN nil ELSE e]
  /\ UNCHANGED nonRetry

\* the wait between two attempts
RetryBackoff ==
  /\ retry.pc = "backoff"
  /\ retry' = [retry EXCEPT !.pc = "attempt"]
  /\ UNCHANGED nonRetry

(***************************************************************************)
(* ExponentialJitterBackoff.BackoffDelay.  A Go int and a time.Duration    *)
(* are 64 bits wide; here such a word is four limbs of 16 bits, lowest     *)
(* first, in two's complement.  The float64 product with the jitter is     *)
(* computed exactly (magnitude * percent / 100, truncated), which is what  *)
(* the float64 gives up to its rounding in the 53rd bit.                   *)
(***************************************************************************)
\* the largest attempt number passed: up to 33, 3^attempt is below 2^53 and
\* math.Pow and its conversion to int are exact
LastAttempt == 33

\* a limb holds 16 bits
Limb == 65536

\* the word of a number below 2^31
Word(n) == << n % Limb, n \div Limb, 0, 0 >>

\* w * k for a small k, the bits above 64 dropped as the int product drops
\* them
MulWord(w, k) ==
  LET p1 == w[1] * k
      p2 == w[2] * k + (p1 \div Limb)
      p3 == w[3] * k + (p2 \div Limb)
      p4 == w[4] * k + (p3 \div Limb)
  IN << p1 % Limb, p2 % Limb, p3 % Limb, p4 % Limb >>

\* the sign bit of a word
IsNegative(w) == w[4] >= Limb \div 2

\* -w
Negate(w) ==
  LET s1 == (Limb - 1 - w[1]) + 1
      s2 == (Limb - 1 - w[2]) + (s1 \div Limb)
      s3 == (Limb - 1 - w[3]) + (s2 \div Limb)
      s4 == (Limb - 1 - w[4]) + (s3 \div Limb)
  IN << s1 % Limb, s2 % Limb, s3 % Limb, s4 % Limb >>

\* a signed value as its sign and its magnitude, a word without sign
Signed(w) ==
  IF IsNegative(w) THEN [neg |-> TRUE, mag |-> Negate(w)]
  ELSE [neg |-> FALSE, mag |-> w]

\* math.MinInt64 and math.MaxInt64
MinInt64 == [neg |-> TRUE, mag |-> << 0, 0, 0, Limb \div 2 >>]
MaxInt64 ==
  [neg |-> FALSE, mag |-> << Limb - 1, Limb - 1, Limb - 1, Limb \div 2 - 1 >>]

\* a < b for two magnitudes
MagLess(a, b) ==
  \E i \in 1..4 : a[i] < b[i] /\ \A j \in (i + 1)..4 : a[j] = b[j]

\* x <= y for two signed values
DurLeq(x, y) ==
  IF x.neg /\ ~y.neg THEN TRUE
  ELSE IF ~x.neg /\ y.neg THEN x.mag = <<0, 0, 0, 0>> /\ y.mag = x.mag
  ELSE IF x.neg THEN ~MagLess(x.mag, y.mag)
  ELSE ~MagLess(y.mag, x.mag)

\* float64(v) * jitter for jitter = pct / 100, then int(...): the magnitude
\* times pct over five limbs, divided by 100 and truncated.  A value that
\* does not fit an int is converted as the build does it: math.MinInt64
\* (amd64), or the nearest int when the conversion saturates (arm64)
TimesJitter(v, pct, sat) ==
  LET m == v.mag
      p1 == m[1] * pct
      p2 == m[2] * pct + (p1 \div Limb)
      p3 == m[3] * pct + (p2 \div Limb)
      p4 == m[4] * pct + (p3 \div Limb)
      q5 == (p4 \div Limb) \div 100
      r5 == (p4 \div Limb) % 100
      q4 == (r5 * Limb + (p4 % Limb)) \div 100
      r4 == (r5 * Limb + (p4 % Limb)) % 100
      q3 == (r4 * Limb + (p3 % Limb)) \div 100
      r3 == (r4 * Limb + (p3 % Limb)) % 100
      q2 == (r3 * Limb + (p2 % Limb)) \div 100
      r2 == (r3 * Limb + (p2 % Limb)) % 100
      q1 == (r2 * Limb + (p1 % Limb)) \div 100
      fits == q5 = 0 /\ q4 < Limb \div 2
  IN IF fits THEN [neg |-> v.neg, mag |-> << q1, q2, q3, q4 >>]
     ELSE IF v.neg \/ ~sat THEN MinInt64
     ELSE MaxInt64

\* minDelay.Nanoseconds() of the 25 * time.Millisecond NewS3Client passes
minDelay == MulWord(MulWord(Word(25), 1000), 1000)

\* time.Duration(5 * time.Minute), in nanoseconds
FiveMinutes ==
  [neg |-> FALSE,
   mag |-> MulWord(MulWord(MulWord(Word(300), 1000), 1000), 1000)]

\* rand.Intn(120-80) + 80, the jitter in hundredths
Jitters == 80..119

\* int(minDelay.Nanoseconds()) * int(math.Pow(3, float64(attempt))): the
\* product of the two ints, wrapped to 64 bits
RECURSIVE Products(_)
Products(n) ==
  IF n = 0 THEN << minDelay >>
  ELSE LET ps == Products(n - 1) IN Append(ps, MulWord(ps[n], 3))

\* the products of the attempts 0..LastAttempt, computed once
ProductTable == Products(LastAttempt)

Product(attempt) == ProductTable[attempt + 1]

\* BackoffDelay without the cap at five minutes
BackoffDelay_NoCap(attempt, err, jitter, sat) ==
  TimesJitter(Signed(Product(attempt)), jitter, sat)

\* BackoffDelay(attempt, err) for the jitter drawn; err is not looked at
BackoffDelay(attempt, err, jitter, sat) ==
  LET retryTime == TimesJitter(Signed(Product(attempt)), jitter, sat)
  IN IF ~DurLeq(retryTime, FiveMinutes) THEN FiveMinutes ELSE retryTime

BackoffIdle ==
  [pc |-> "idle", attempt |-> 0, err |-> nil, jitter |-> 100,
   sat |-> FALSE, retryTime |-> [neg |-> FALSE, mag |-> Word(0)]]

nonBackoff == << clientVars, pool, retry, tree, sno, race, norm, oc, lazy,
                 cx, acc >>

\* the retryer asks for the delay before the next attempt
CallBackoffDelay ==
  /\ backoff.pc = "idle"
  /\ \E attempt \in 0..LastAttempt, err \in {RequestError, SlowDown},
        jitter \in Jitters, sat \in BOOLEAN :
       backoff' = [pc |-> "returned", attempt |-> attempt, err |-> err,
                   jitter |-> jitter, sat |-> sat,
                   retryTime |-> BackoffDelay(attempt, err, jitter, sat)]
  /\ UNCHANGED nonBackoff

(***************************************************************************)
(* The inode tree s3Root.OnAdd builds.  A name f.Name is the list of its    *)
(* components between the slashes; a node of the tree is known by its path *)
(* from the root, since an inode keeps its children by name.               *)
(***************************************************************************)
\* most entries of a listing
MaxKeys == 3

\* the names listed: "a/b/c.txt", "a/b/d.txt", "a/e.txt", "a/b", "a//e.txt",
\* "a/./e.txt", "a/../e.txt", and the directory entry "a/b/"
TreeKeys ==
  { <<"a", "b", "c.txt">>, <<"a", "b", "d.txt">>, <<"a", "e.txt">>,
    <<"a", "b">>, <<"a", "", "e.txt">>, <<"a", ".", "e.txt">>,
    <<"a", "..", "e.txt">>, <<"a", "b", "">> }

\* the listings: up to n entries, no name twice
RECURSIVE Listings(_)
Listings(n) ==
  IF n = 0 THEN { <<>> }
  ELSE LET shorter == Listings(n - 1)
       IN shorter \cup
          UNION { { Append(l, k) :
                      k \in { y \in TreeKeys :
                                \A i \in 1..(n - 1) : l[i] # y } } :
                  l \in { x \in shorter : Len(x) = n - 1 } }

\* f.FileInfo().IsDir(): the entry of a directory, its name ends with '/'
IsDir(fname) == fname[Len(fname)] = ""

\* filepath.Clean(f.Name) of a name that does not start with '/'
Clean(fname) ==
  LET c == CleanFrom(fname, <<>>)
  IN IF c = <<>> THEN <<".">> ELSE c

Directory == "Directory"
File == "File"

\* an inode: where it hangs, what it is and, for an s3File, its entry
Inode(path, kind, file) == [path |-> path, kind |-> kind, file |-> file]

\* p.GetChild(component): the child of that name, of whatever kind
HasChild(nodes, p, component) ==
  \E n \in nodes : n.path = Append(p, component)

\* the nodes at path p and below it
Subtree(nodes, p) ==
  { n \in nodes : Len(n.path) >= Len(p) /\ SubSeq(n.path, 1, Len(p)) = p }

\* p.AddChild(name, ch, true): ch becomes the child of that name; a child
\* that had the name is dropped from the tree with all that hangs below it
AddChild(nodes, p, ch) == (nodes \ Subtree(nodes, ch.path)) \cup {ch}

\* the loop over strings.Split(dir, "/") from the inode at p: an empty
\* component is skipped, a missing child is created as a directory, and the
\* child found or created becomes p
RECURSIVE Descend(_, _, _)
Descend(nodes, p, components) ==
  IF components = <<>> THEN [nodes |-> nodes, p |-> p]
  ELSE LET component == Head(components)
           ch == Append(p, component)
       IN IF Len(component) = 0
          THEN Descend(nodes, p, Tail(components))
          ELSE IF HasChild(nodes, p, component)
               THEN Descend(nodes, ch, Tail(components))
               ELSE Descend(AddChild(nodes, p, Inode(ch, Directory, <<>>)),
                            ch, Tail(components))

\* one turn of the loop of OnAdd for the entry f
AddFile(nodes, f) ==
  IF IsDir(f) THEN nodes
  ELSE LET cleaned == Clean(f)
           dir == SplitDir(cleaned)
           base == SplitFile(cleaned)
           d == Descend(nodes, <<>>, dir)
       IN AddChild(d.nodes, d.p, Inode(Append(d.p, base), File, f))

TreeIdle ==
  [pc |-> "idle", listing |-> <<>>, i |-> 0, nodes |-> {}, err |-> nil]

nonTree == << clientVars, pool, retry, backoff, sno, race, norm, oc, lazy,
              cx, acc >>

\* OnAdd is called on the root for a listing
TreeOnAdd ==
  /\ tree.pc = "idle"
  /\ \E l \in Listings(MaxKeys) :
       tree' = [TreeIdle EXCEPT !.pc = IF l = <<>> THEN "built" ELSE "adding",
                                !.listing = l, !.i = 1]
  /\ UNCHANGED nonTree

\* for _, f := range ...: the turn of the loop for the entry at i; OnAdd
\* has no result and signals nothing
TreeAddFile ==
  /\ tree.pc = "adding"
  /\ tree' = [tree EXCEPT
                !.nodes = AddFile(tree.nodes, tree.listing[tree.i]),
                !.i = @ + 1,
                !.pc = IF tree.i = Len(tree.listing) THEN "built" ELSE @]
  /\ UNCHANGED nonTree

(***************************************************************************)
(* One S3Node handle, the accounting reader over a stream.  The variable   *)
(* sno holds the fields of the struct and, as history, the methods called  *)
(* on it, what the last one returned and what was done to the streams.     *)
(***************************************************************************)
\* most method calls on the handle
MaxCalls == 3

\* asyncreader.BufferSize and ci.BufferSize, in the unit sizes are given in
asyncBufferSize == 2
ciBufferSize == 4

\* the sizes of the object: unknown, below asyncreader.BufferSize, between
\* that and ci.BufferSize, at ci.BufferSize and above it
Sizes == {-1, 1, 2, 4, 5}

\* a stream: "s1" or "s2" as it was given, or the asyncreader.AsyncReader
\* made over it; NoStream is the nil io.Closer
NoStream == [src |-> "nil", async |-> FALSE]
Raw(s) == [src |-> s, async |-> FALSE]
Async(st) == [src |-> st.src, async |-> TRUE]
Streams == { Raw("s1"), Raw("s2") }

\* the errors around a handle
Canceled == "context canceled"
EOF == "EOF"
ErrShortWrite == "short write"
StreamError == "stream error"

\* what a method returned: n bytes and an error
Returned(op, n, e) == [op |-> op, n |-> n, err |-> e]

\* an operation on a stream
StreamOp(op, st) == [op |-> op, on |-> st]

\* what the Read of a stream returned: n bytes and an error
Got(n, e) == [n |-> n, err |-> e]

\* an io.Reader given to UnWrap: the handle itself, an accountStream made
\* by WrapStream over the stream st, or the stream st as it is
Reader(kind, st) == [kind |-> kind, in |-> st]
NoReader == Reader("none", NoStream)
Accounters == {"S3Node", "accountStream"}

\* what UnWrap(in) returned: the stream unwrapped and the wrap function
Unwrapped(in, st, wrap) == [in |-> in, unwrapped |-> st, wrap |-> wrap]

\* history of the last call: got is what its Read of a stream returned,
\* logged the number of its fs.Errorf calls, unw what its UnWrap returned
HandleIdle ==
  [pc |-> "idle", in |-> NoStream, origIn |-> NoStream, close |-> NoStream,
   closed |-> FALSE, withBuf |-> FALSE, size |-> 0, ctxDone |-> FALSE,
   exit |-> "open", hist |-> <<>>, ops |-> <<>>,
   ret |-> Returned("none", 0, nil), got |-> Got(0, nil), logged |-> 0,
   unw |-> Unwrapped(NoReader, NoStream, "none")]

\* the stream below st has been closed
IsClosed(n, st) ==
  \E i \in 1..Len(n.ops) : n.ops[i].op = "Close" /\ n.ops[i].on.src = st.src

\* sno.Abandon(): an AsyncReader in sno.in is told to stop
Abandon(n) ==
  IF n.in.async THEN [n EXCEPT !.ops = Append(@, StreamOp("Abandon", n.in))]
  ELSE n

\* WithBuffer that adds a buffer only from ci.BufferSize on
WithBuffer_FromBudget(n, made) ==
  IF n.withBuf THEN n
  ELSE IF (n.size >= ciBufferSize \/ n.size = -1) /\ made
       THEN [n EXCEPT !.withBuf = TRUE, !.in = Async(n.origIn),
                      !.close = Async(n.origIn)]
       ELSE [n EXCEPT !.withBuf = TRUE]

\* sno.WithBuffer(); made says that asyncreader.New returned no error
WithBuffer(n, made) ==
  IF n.withBuf THEN n
  ELSE LET buffers == IF n.size >= ciBufferSize \/ n.size = -1
                      THEN ciBufferSize \div asyncBufferSize
                      ELSE n.size \div asyncBufferSize
       IN IF buffers > 0 /\ made
          THEN [n EXCEPT !.withBuf = TRUE, !.in = Async(n.origIn),
                         !.close = Async(n.origIn)]
          ELSE IF buffers > 0
          THEN [n EXCEPT !.withBuf = TRUE, !.logged = 1]
          ELSE [n EXCEPT !.withBuf = TRUE]

\* UpdateReader that leaves the closed flag as it was
UpdateReader_KeepsClosed(n, in, made) ==
  LET withBuf == n.withBuf
      a == IF withBuf THEN [Abandon(n) EXCEPT !.withBuf = FALSE] ELSE n
      b == [a EXCEPT !.in = in, !.ctxDone = FALSE, !.close = in,
                     !.origIn = in]
  IN IF withBuf THEN WithBuffer(b, made) ELSE b

\* sno.UpdateReader(ctx, in) with a context that is not cancelled
UpdateReader(n, in, made) ==
  LET withBuf == n.withBuf
      a == IF withBuf THEN [Abandon(n) EXCEPT !.withBuf = FALSE] ELSE n
      b == [a EXCEPT !.in = in, !.ctxDone = FALSE, !.close = in,
                     !.origIn = in, !.closed = FALSE]
  IN IF withBuf THEN WithBuffer(b, made) ELSE b

\* checkReadBefore that does not look at the context
checkReadBefore_NoCtx(n) == [bytesUntilLimit |-> 0, err |-> nil]

\* sno.checkReadBefore(): bytesUntilLimit is never assigned
checkReadBefore(n) ==
  IF n.ctxDone THEN [bytesUntilLimit |-> 0, err |-> Canceled]
  ELSE [bytesUntilLimit |-> 0, err |-> nil]

\* sno.checkReadAfter(bytesUntilLimit, count, err): the count returned
checkReadAfter(bytesUntilLimit, count, err) ==
  LET left == bytesUntilLimit - count
      chopped == IF left < 0 THEN count + left ELSE count
  IN [n |-> IF left < 0 /\ chopped < 0 THEN 0 ELSE chopped, err |-> err]

\* what Read of the stream st gives when avail bytes are left in it
StreamRead(n, st, avail) ==
  IF IsClosed(n, st) THEN [n |-> 0, err |-> StreamError]
  ELSE IF avail = 0 THEN [n |-> 0, err |-> EOF]
  ELSE [n |-> avail, err |-> nil]

\* sno.read(in, p)
read(n, in, avail) ==
  LET before == checkReadBefore(n)
      got == StreamRead(n, in, avail)
      after == checkReadAfter(before.bytesUntilLimit, got.n, got.err)
  IN IF before.err # nil
     THEN [n EXCEPT !.ret = Returned("Read", 0, before.err)]
     ELSE [n EXCEPT !.ops = Append(@, StreamOp("Read", in)),
                    !.got = Got(got.n, got.err),
                    !.ret = Returned("Read", after.n, after.err)]

\* sno.WriteTo(w): one turn of the copy from sno.in into w through
\* accountWriteTo.Write; a write that reports fewer bytes than it was given
\* ends the copy with io.ErrShortWrite
WriteTo(n, avail) ==
  LET got == StreamRead(n, n.in, avail)
      before == checkReadBefore(n)
      after == checkReadAfter(before.bytesUntilLimit, got.n, nil)
      read1 == [n EXCEPT !.ops = Append(@, StreamOp("Read", n.in)),
                         !.got = Got(got.n, got.err)]
  IN IF got.n = 0
     THEN [read1 EXCEPT
             !.ret = Returned("WriteTo", 0,
                              IF got.err = EOF THEN nil ELSE got.err)]
     ELSE IF before.err # nil
     THEN [read1 EXCEPT !.ret = Returned("WriteTo", 0, before.err)]
     ELSE [read1 EXCEPT
             !.ops = Append(@, StreamOp("Write", n.in)),
             !.ret = Returned("WriteTo", after.n,
                              IF after.n < got.n THEN ErrShortWrite ELSE nil)]

\* rd.OldStream(): the top reader of the handle, the stream of a wrapper
OldStream(n, rd) == IF rd.kind = "S3Node" THEN n.in ELSE rd.in

\* a Read of the reader that wrap(r) returns: of the accountStream that
\* WrapStream makes over r, or of r itself under the identity
WrapRead(n, wrap, r, avail) ==
  LET got == StreamRead(n, r, avail)
  IN IF wrap = "WrapStream" THEN read(n, r, avail)
     ELSE [n EXCEPT !.ops = Append(@, StreamOp("Read", r)),
                    !.got = Got(got.n, got.err),
                    !.ret = Returned("Read", got.n, got.err)]

\* UnWrap(in)
UnWrap(n, rd) ==
  IF rd.kind \in Accounters
  THEN Unwrapped(rd, OldStream(n, rd), "WrapStream")
  ELSE Unwrapped(rd, rd.in, "identity")

\* sno.Close() without the test of sno.closed
Close_NoGuard(n, e) ==
  IF n.close = NoStream
  THEN [n EXCEPT !.closed = TRUE, !.ret = Returned("Close", 0, nil)]
  ELSE [n EXCEPT !.closed = TRUE,
                 !.ops = Append(@, StreamOp("Close", n.close)),
                 !.ret = Returned("Close", 0, e)]

\* sno.Close(); e is what sno.close.Close() returns
Close(n, e) ==
  IF n.closed THEN [n EXCEPT !.ret = Returned("Close", 0, nil)]
  ELSE IF n.close = NoStream
  THEN [n EXCEPT !.closed = TRUE, !.ret = Returned("Close", 0, nil)]
  ELSE [n EXCEPT !.closed = TRUE,
                 !.ops = Append(@, StreamOp("Close", n.close)),
                 !.ret = Returned("Close", 0, e)]

\* sno.Done(): close(sno.exit); closing a closed channel panics
Done(n) ==
  IF n.exit = "closed" THEN [n EXCEPT !.pc = "panicked"]
  ELSE [n EXCEPT !.exit = "closed", !.ret = Returned("Done", 0, nil)]

nonHandle == << clientVars, pool, retry, backoff, tree, race, norm, oc,
                lazy, cx, acc >>

\* the handle can take one more call
Ready == sno.pc = "ready" /\ Len(sno.hist) < MaxCalls

\* the handle as a call starts: the history of the last call is dropped
Fresh(n) ==
  [n EXCEPT !.got = Got(0, nil), !.logged = 0,
            !.unw = Unwrapped(NoReader, NoStream, "none")]

\* the handle after the call of a method
Called(op, n) == [n EXCEPT !.hist = Append(@, op)]

\* a handle is made over the stream "s1", with or without a closer
HandleNew ==
  /\ sno.pc = "idle"
  /\ \E size \in Sizes, closer \in {Raw("s1"), NoStream} :
       sno' = [HandleIdle EXCEPT !.pc = "ready", !.in = Raw("s1"),
                                 !.origIn = Raw("s1"), !.close = closer,
                                 !.size = size]
  /\ UNCHANGED nonHandle

\* the context of the transfer is cancelled
HandleCancel ==
  /\ sno.pc = "ready"
  /\ ~sno.ctxDone
  /\ sno' = [sno EXCEPT !.ctxDone = TRUE]
  /\ UNCHANGED nonHandle

HandleWithBuffer ==
  /\ Ready
  /\ \E made \in BOOLEAN :
       sno' = Called("WithBuffer",
                     [WithBuffer(Fresh(sno), made) EXCEPT
                        !.ret = Returned("WithBuffer", 0, nil)])
  /\ UNCHANGED nonHandle

HandleUpdateReader ==
  /\ Ready
  /\ \E in \in Streams, made \in BOOLEAN :
       sno' = Called("UpdateReader",
                     [UpdateReader(Fresh(sno), in, made) EXCEPT
                        !.ret = Returned("UpdateReader", 0, nil)])
  /\ UNCHANGED nonHandle

HandleRead ==
  /\ Ready
  /\ \E avail \in 0..1 : sno' = Called("Read", read(Fresh(sno), sno.in, avail))
  /\ UNCHANGED nonHandle

HandleWriteTo ==
  /\ Ready
  /\ \E avail \in 0..1 : sno' = Called("WriteTo", WriteTo(Fresh(sno), avail))
  /\ UNCHANGED nonHandle

\* a Read of the reader made by sno.WrapStream(r)
HandleWrapRead ==
  /\ Ready
  /\ \E r \in Streams, avail \in 0..1 :
       sno' = Called("WrapRead", WrapRead(Fresh(sno), "WrapStream", r, avail))
  /\ UNCHANGED nonHandle

\* the readers a caller hands to UnWrap
Readers ==
  {Reader("S3Node", NoStream)}
    \cup { Reader(k, Raw("s2")) : k \in {"accountStream", "Reader"} }

\* unwrapped, wrap := UnWrap(in), then a Read of wrap(r) for a stream r
HandleUnWrap ==
  /\ Ready
  /\ \E rd \in Readers, r \in Streams, avail \in 0..1 :
       LET u == UnWrap(sno, rd)
       IN sno' = Called("UnWrap",
                        [WrapRead(Fresh(sno), u.wrap, r, avail) EXCEPT !.unw = u])
  /\ UNCHANGED nonHandle

\* sno.SetStream(in)
HandleSetStream ==
  /\ Ready
  /\ \E in \in Streams :
       sno' = Called("SetStream",
                     [Fresh(sno) EXCEPT
                        !.in = in, !.ret = Returned("SetStream", 0, nil)])
  /\ UNCHANGED nonHandle

HandleClose ==
  /\ Ready
  /\ \E e \in {nil, StreamError} : sno' = Called("Close", Close(Fresh(sno), e))
  /\ UNCHANGED nonHandle

HandleDone ==
  /\ Ready
  /\ sno' = Called("Done", Done(Fresh(sno)))
  /\ UNCHANGED nonHandle

(***************************************************************************)
(* One S3Node handle shared by goroutines that call Read and Close.  The   *)
(* variable race holds the mutex, the closed flag and where each goroutine *)
(* stands: a call is the acquisition of sno.mu, the call on the stream     *)
(* below while the mutex is held, and the deferred release.                *)
(***************************************************************************)
\* goroutines that use the handle
MaxCallers == 3
Callers == 1..MaxCallers

\* the value of mu when no goroutine holds it
Unlocked == 0

\* closes counts the Close invocations on the stream below, hasCloser is
\* sno.close # nil
RaceIdle ==
  [mu |-> Unlocked, closed |-> FALSE, hasCloser |-> TRUE, made |-> FALSE,
   closes |-> 0, at |-> [p \in Callers |-> "idle"],
   ret |-> [p \in Callers |-> nil]]

nonRace == << clientVars, pool, retry, backoff, tree, sno, norm, oc, lazy,
              cx, acc >>

\* the handle is made over a stream, with or without a closer
RaceNew ==
  /\ ~race.made
  /\ \E c \in BOOLEAN : race' = [race EXCEPT !.made = TRUE, !.hasCloser = c]
  /\ UNCHANGED nonRace

\* a goroutine calls Read or Close and reaches sno.mu.Lock()
RaceCall(p) ==
  /\ race.made
  /\ race.at[p] = "idle"
  /\ \E m \in {"ReadLock", "CloseLock"} : race' = [race EXCEPT !.at[p] = m]
  /\ UNCHANGED nonRace

\* Read that goes on to the stream without sno.mu
RaceReadLock_NoMutex(p) ==
  /\ race.at[p] = "ReadLock"
  /\ race' = [race EXCEPT !.at[p] = "in.Read"]
  /\ UNCHANGED nonRace

\* Read: sno.mu.Lock() returns and sno.read calls in.Read(p)
RaceReadLock(p) ==
  /\ race.at[p] = "ReadLock"
  /\ race.mu = Unlocked
  /\ race' = [race EXCEPT !.mu = p, !.at[p] = "in.Read"]
  /\ UNCHANGED nonRace

\* Read: in.Read(p) returns, a stream that was closed gives an error
RaceReadReturn(p) ==
  /\ race.at[p] = "in.Read"
  /\ race' = [race EXCEPT
                !.mu = IF @ = p THEN Unlocked ELSE @,
                !.at[p] = "idle",
                !.ret[p] = IF race.closes > 0 THEN StreamError ELSE nil]
  /\ UNCHANGED nonRace

\* Close: sno.mu.Lock() returns; a closed handle and a handle without a
\* closer go to the return, the others to sno.close.Close()
RaceCloseLock(p) ==
  /\ race.at[p] = "CloseLock"
  /\ race.mu = Unlocked
  /\ race' = [race EXCEPT
                !.mu = p,
                !.closed = TRUE,
                !.at[p] = IF race.closed \/ ~race.hasCloser THEN "return"
                          ELSE "close.Close"]
  /\ UNCHANGED nonRace

\* Close: sno.close.Close() returns
RaceCloseStream(p) ==
  /\ race.at[p] = "close.Close"
  /\ race' = [race EXCEPT !.closes = @ + 1, !.at[p] = "return"]
  /\ UNCHANGED nonRace

\* Close: the deferred sno.mu.Unlock() and the return
RaceCloseReturn(p) ==
  /\ race.at[p] = "return"
  /\ race' = [race EXCEPT !.mu = Unlocked, !.at[p] = "idle", !.ret[p] = nil]
  /\ UNCHANGED nonRace

(***************************************************************************)
(* The backend key each object method composes for a path.  The variable   *)
(* norm holds one path and the key of the object request that PutObject,   *)
(* GetObject, DeleteObject and HeadObject issue for it.                    *)
(***************************************************************************)
\* most '/'-separated components of a path
MaxComps == 3

\* the components: empty (a redundant separator), '.', '..' and two names
Comps == {"", ".", "..", "a", "b"}
NormPaths == UNION { [1..n -> Comps] : n \in 1..MaxComps }

\* a backend with the bucket of the calls and no object
NormBucket == "abc"

\* the key of the object request of each method; the request of PutObject
\* is made to fail, and GetObject gets no length from HeadObject (its
\* bucket probe fails), so that each method issues its object request
KeyOfPutObject(path) ==
  LET r == PutObject({NormBucket}, [b \in Names |-> EmptyBucket], NormBucket,
                     path, <<>>, FALSE, TRUE)
  IN r.calls[Len(r.calls)].key

KeyOfGetObject(path) ==
  LET r == GetObject({NormBucket}, [b \in Names |-> EmptyBucket], NormBucket,
                     path, FALSE, TRUE, FALSE, FALSE)
  IN r.calls[Len(r.calls)].key

KeyOfDeleteObject(path) ==
  LET r == DeleteObject({NormBucket}, [b \in Names |-> EmptyBucket],
                        NormBucket, path, FALSE, FALSE)
  IN r.calls[Len(r.calls)].key

KeyOfHeadObject(path) ==
  LET r == HeadObject({NormBucket}, [b \in Names |-> EmptyBucket],
                      NormBucket, path, FALSE, FALSE)
  IN r.calls[Len(r.calls)].key

NormIdle ==
  [pc |-> "idle", path |-> <<>>, put |-> <<>>, get |-> <<>>, del |-> <<>>,
   head |-> <<>>]

nonNorm == << clientVars, pool, retry, backoff, tree, sno, race, oc, lazy,
              cx, acc >>

\* the four methods are called with one path
NormCompose ==
  /\ norm.pc = "idle"
  /\ \E path \in NormPaths :
       norm' = [pc |-> "composed", path |-> path,
                put |-> KeyOfPutObject(path), get |-> KeyOfGetObject(path),
                del |-> KeyOfDeleteObject(path),
                head |-> KeyOfHeadObject(path)]
  /\ UNCHANGED nonNorm

(***************************************************************************)
(* The loopback file system with windows semantics: the nodes of one       *)
(* directory keep the count of their open handles.  The variable oc holds  *)
(* the directory, the nodes and where each request the kernel sent stands; *)
(* a request runs in steps, the calls into LoopbackNode and the sections   *)
(* under a node's mutex, and requests interleave between the steps.        *)
(***************************************************************************)
\* requests served at the same time, and requests the kernel sends in all
MaxProcs == 2
MaxRequests == 3
Procs == 1..MaxProcs

\* the names in the directory and the nodes: node 1 is the file "f" at the
\* start, node 2 the one a Create makes
NodeNames == {"f", "g"}
NodeIds == {1, 2}
NoNode == 0

\* syscall.Errno
OK == "0"
EBUSY == "EBUSY"
ENOENT == "ENOENT"

\* a request that is not running
NoRequest ==
  [pc |-> "idle", name |-> "", newName |-> "", node |-> NoNode, errno |-> OK]

\* what the last call delegated to LoopbackNode.Unlink or Rename did: the
\* nodes it removed or renamed and the open handles they had
Delegated(op, nodes, handles) == [op |-> op, nodes |-> nodes, handles |-> handles]

\* dir maps the names to nodes, handles counts the open files of a node,
\* opened the Opens and Creates that returned 0, released the Releases
OpenIdle ==
  [dir |-> [x \in NodeNames |-> IF x = "f" THEN 1 ELSE NoNode],
   openCount |-> [i \in NodeIds |-> 0],
   handles |-> [i \in NodeIds |-> 0],
   opened |-> [i \in NodeIds |-> 0],
   released |-> [i \in NodeIds |-> 0],
   at |-> [p \in Procs |-> NoRequest],
   requests |-> 0,
   last |-> Delegated("none", {}, 0)]

nonOpen == << clientVars, pool, retry, backoff, tree, sno, race, norm, lazy,
              cx, acc >>

\* n.increment() and n.decrement(), under n.mu
increment(count) == count + 1
decrement(count) == count - 1

\* Open and Create that count the request whatever LoopbackNode returned
CountOpen_Always(count, errno) == increment(count)

\* if errno == 0 { n.increment() }
CountOpen(count, errno) == IF errno = OK THEN increment(count) ELSE count

\* the nodes that are in the directory
Linked(o) == { o.dir[x] : x \in NodeNames } \ {NoNode}

\* the kernel sends Open for a node it has looked up
OpenCall(p) ==
  /\ oc.at[p].pc = "idle"
  /\ oc.requests < MaxRequests
  /\ \E x \in NodeNames :
       /\ oc.dir[x] # NoNode
       /\ oc' = [oc EXCEPT !.requests = @ + 1,
                           !.at[p] = [NoRequest EXCEPT !.pc = "Open",
                                                       !.name = x,
                                                       !.node = oc.dir[x]]]
  /\ UNCHANGED nonOpen

\* fh, flags, errno := n.LoopbackNode.Open(ctx, flags): the file is opened
\* when it is still there, and the call can fail for other reasons
OpenLoopback(p) ==
  /\ oc.at[p].pc = "Open"
  /\ \E ok \in BOOLEAN :
       LET i == oc.at[p].node
       IN IF ok /\ i \in Linked(oc)
          THEN oc' = [oc EXCEPT !.handles[i] = @ + 1,
                                !.at[p].pc = "increment"]
          ELSE oc' = [oc EXCEPT !.at[p].errno = ENOENT,
                                !.at[p].pc = "increment"]
  /\ UNCHANGED nonOpen

\* if errno == 0 { n.increment() }; return: of Open and of Create
OpenReturn(p) ==
  /\ oc.at[p].pc = "increment"
  /\ LET i == oc.at[p].node
         e == oc.at[p].errno
     IN IF i = NoNode
        THEN oc' = [oc EXCEPT !.at[p] = NoRequest]
        ELSE oc' = [oc EXCEPT
                      !.openCount[i] = CountOpen(@, e),
                      !.opened[i] = IF e = OK THEN @ + 1 ELSE @,
                      !.at[p] = NoRequest]
  /\ UNCHANGED nonOpen

\* the kernel sends Create for a name in the directory
CreateCall(p) ==
  /\ oc.at[p].pc = "idle"
  /\ oc.requests < MaxRequests
  /\ \E x \in NodeNames :
       oc' = [oc EXCEPT !.requests = @ + 1,
                        !.at[p] = [NoRequest EXCEPT !.pc = "Create",
                                                    !.name = x]]
  /\ UNCHANGED nonOpen

\* inode, fh, flags, errno := n.LoopbackNode.Create(...): the file is made
\* when the name is free, opened, and its node returned
CreateLoopback(p) ==
  /\ oc.at[p].pc = "Create"
  /\ \E ok \in BOOLEAN :
       LET x == oc.at[p].name
           free == NodeIds \ Linked(oc)
           i == IF oc.dir[x] # NoNode THEN oc.dir[x]
                ELSE CHOOSE j \in free : \A k \in free : j >= k
       IN IF ok /\ (oc.dir[x] # NoNode \/ free # {})
          THEN oc' = [oc EXCEPT !.dir[x] = i,
                                !.handles[i] = @ + 1,
                                !.at[p].node = i,
                                !.at[p].pc = "increment"]
          ELSE oc' = [oc EXCEPT !.at[p].errno = ENOENT,
                                !.at[p].pc = "increment"]
  /\ UNCHANGED nonOpen

\* the kernel sends Release for a handle that an Open or Create returned
\* and no Release was sent for; n.decrement()
ReleaseDecrement(p) ==
  /\ oc.at[p].pc = "idle"
  /\ oc.requests < MaxRequests
  /\ \E i \in NodeIds :
       /\ oc.opened[i] - oc.released[i] > 0
       /\ oc' = [oc EXCEPT !.requests = @ + 1,
                           !.openCount[i] = decrement(@),
                           !.released[i] = @ + 1,
                           !.at[p] = [NoRequest EXCEPT !.pc = "fr.Release",
                                                       !.node = i]]
  /\ UNCHANGED nonOpen

\* return fr.Release(ctx): the file is closed
ReleaseFile(p) ==
  /\ oc.at[p].pc = "fr.Release"
  /\ oc' = [oc EXCEPT !.handles[oc.at[p].node] = @ - 1,
                      !.at[p] = NoRequest]
  /\ UNCHANGED nonOpen

\* isBusy(parent, name)
isBusy(o, x) == o.dir[x] # NoNode /\ o.openCount[o.dir[x]] > 0

\* the kernel sends Unlink for a name
UnlinkCall(p) ==
  /\ oc.at[p].pc = "idle"
  /\ oc.requests < MaxRequests
  /\ \E x \in NodeNames :
       oc' = [oc EXCEPT !.requests = @ + 1,
                        !.at[p] = [NoRequest EXCEPT !.pc = "Unlink",
                                                    !.name = x]]
  /\ UNCHANGED nonOpen

\* if isBusy(n.EmbeddedInode(), name) { return syscall.EBUSY }
UnlinkBusy(p) ==
  /\ oc.at[p].pc = "Unlink"
  /\ IF isBusy(oc, oc.at[p].name)
     THEN oc' = [oc EXCEPT !.at[p] = NoRequest,
                           !.last = Delegated("EBUSY", {}, 0)]
     ELSE oc' = [oc EXCEPT !.at[p].pc = "LoopbackNode.Unlink"]
  /\ UNCHANGED nonOpen

\* the open handles of the nodes
HandlesOf(o, nodes) ==
  IF nodes = {} THEN 0
  ELSE LET i == CHOOSE j \in nodes : \A k \in nodes : o.handles[j] >= o.handles[k]
       IN o.handles[i]

\* return n.LoopbackNode.Unlink(ctx, name)
UnlinkLoopback(p) ==
  /\ oc.at[p].pc = "LoopbackNode.Unlink"
  /\ LET x == oc.at[p].name
         gone == {oc.dir[x]} \ {NoNode}
     IN oc' = [oc EXCEPT !.dir[x] = NoNode,
                         !.last = Delegated("Unlink", gone, HandlesOf(oc, gone)),
                         !.at[p] = NoRequest]
  /\ UNCHANGED nonOpen

\* the kernel sends Rename for two names of the directory
RenameCall(p) ==
  /\ oc.at[p].pc = "idle"
  /\ oc.requests < MaxRequests
  /\ \E x \in NodeNames : \E y \in NodeNames \ {x} :
       oc' = [oc EXCEPT !.requests = @ + 1,
                        !.at[p] = [NoRequest EXCEPT !.pc = "Rename",
                                                    !.name = x,
                                                    !.newName = y]]
  /\ UNCHANGED nonOpen

\* if isBusy(n.EmbeddedInode(), name) || ...
RenameBusy(p) ==
  /\ oc.at[p].pc = "Rename"
  /\ IF isBusy(oc, oc.at[p].name)
     THEN oc' = [oc EXCEPT !.at[p] = NoRequest,
                           !.last = Delegated("EBUSY", {}, 0)]
     ELSE oc' = [oc EXCEPT !.at[p].pc = "isBusy(newName)"]
  /\ UNCHANGED nonOpen

\* ... || isBusy(newParent.EmbeddedInode(), newName) { return syscall.EBUSY }
RenameBusyNew(p) ==
  /\ oc.at[p].pc = "isBusy(newName)"
  /\ IF isBusy(oc, oc.at[p].newName)
     THEN oc' = [oc EXCEPT !.at[p] = NoRequest,
                           !.last = Delegated("EBUSY", {}, 0)]
     ELSE oc' = [oc EXCEPT !.at[p].pc = "LoopbackNode.Rename"]
  /\ UNCHANGED nonOpen

\* return n.LoopbackNode.Rename(ctx, name, newParent, newName, flags): the
\* file takes the new name and the file that had it is removed
RenameLoopback(p) ==
  /\ oc.at[p].pc = "LoopbackNode.Rename"
  /\ LET x == oc.at[p].name
         y == oc.at[p].newName
         moved == {oc.dir[x], oc.dir[y]} \ {NoNode}
     IN IF oc.dir[x] = NoNode
        THEN oc' = [oc EXCEPT !.last = Delegated("Rename", {}, 0),
                              !.at[p] = NoRequest]
        ELSE oc' = [oc EXCEPT !.dir[y] = oc.dir[x],
                              !.dir[x] = NoNode,
                              !.last = Delegated("Rename", moved,
                                                 HandlesOf(oc, moved)),
                              !.at[p] = NoRequest]
  /\ UNCHANGED nonOpen

(***************************************************************************)
(* One s3File node of the tree: OnAdd makes it over a backing entry, Open  *)
(* unpacks the entry's content into zf.data under zf.mu, Read serves from  *)
(* zf.data.  The variable lazy holds the node, the history of the loads    *)
(* of the entry's content and where each request stands.                   *)
(***************************************************************************)
\* the Open and Read requests the kernel sends in all
MaxOpens == 3

\* the contents a backing entry can have
Entries == { <<>>, <<"x">>, <<"x", "y">> }

\* zf.data: nil, or the bytes that were read
NoData == [isNil |-> TRUE, bytes |-> <<>>]
Data(b) == [isNil |-> FALSE, bytes |-> b]

EIO == "EIO"

\* what the last Read returned
ReadResult(off, b, errno) == [off |-> off, bytes |-> b, errno |-> errno]
NoRead == ReadResult(-1, <<>>, OK)

\* loads is the history of the contents read from the entry, opened the
\* number of Opens that returned 0, errno what the last Open returned
LazyIdle ==
  [pc |-> "idle", entry |-> <<>>, data |-> NoData, mu |-> Unlocked,
   loads |-> <<>>, requests |-> 0, opened |-> 0, errno |-> OK,
   at |-> [p \in Procs |-> "idle"], got |-> NoRead]

nonLazy == << clientVars, pool, retry, backoff, tree, sno, race, norm, oc,
              cx, acc >>

\* OnAdd: ch := p.NewPersistentInode(ctx, &s3File{file: f}, ...)
LazyOnAdd ==
  /\ lazy.pc = "idle"
  /\ \E e \in Entries : lazy' = [lazy EXCEPT !.pc = "added", !.entry = e]
  /\ UNCHANGED nonLazy

\* Open that unpacks whatever zf.data holds
MustUnpack_Always(data) == TRUE

\* if zf.data == nil
MustUnpack(data) == data.isNil

\* the kernel sends Open and the request reaches zf.mu.Lock()
LazyOpenCall(p) ==
  /\ lazy.pc = "added"
  /\ lazy.at[p] = "idle"
  /\ lazy.requests < MaxOpens
  /\ lazy' = [lazy EXCEPT !.requests = @ + 1, !.at[p] = "Lock"]
  /\ UNCHANGED nonLazy

\* zf.mu.Lock()
LazyOpenLock(p) ==
  /\ lazy.at[p] = "Lock"
  /\ lazy.mu = Unlocked
  /\ lazy' = [lazy EXCEPT !.mu = p, !.at[p] = "Unpack"]
  /\ UNCHANGED nonLazy

\* the body of Open: zf.file.Open() and ioutil.ReadAll(rc) when zf.data is
\* nil, either of which can fail with EIO; the deferred zf.mu.Unlock()
LazyOpenUnpack(p) ==
  /\ lazy.at[p] = "Unpack"
  /\ \E ok \in BOOLEAN :
       IF ~MustUnpack(lazy.data)
       THEN lazy' = [lazy EXCEPT !.opened = @ + 1, !.errno = OK,
                                 !.mu = Unlocked, !.at[p] = "idle"]
       ELSE IF ok
       THEN lazy' = [lazy EXCEPT !.data = Data(lazy.entry),
                                 !.loads = Append(@, lazy.entry),
                                 !.opened = @ + 1, !.errno = OK,
                                 !.mu = Unlocked, !.at[p] = "idle"]
       ELSE lazy' = [lazy EXCEPT !.errno = EIO, !.mu = Unlocked,
                                 !.at[p] = "idle"]
  /\ UNCHANGED nonLazy

\* zf.data[off:end] with end := off + len(dest), at most len(zf.data)
ReadData(data, off, len) ==
  LET end == IF off + len > Len(data.bytes) THEN Len(data.bytes)
             ELSE off + len
  IN SubSeq(data.bytes, off + 1, end)

\* Read of a file that an Open returned 0 for, inside the size of the entry
LazyRead(p) ==
  /\ lazy.at[p] = "idle"
  /\ lazy.opened > 0
  /\ lazy.requests < MaxOpens
  /\ \E off \in 0..Len(lazy.entry), len \in 1..2 :
       lazy' = [lazy EXCEPT
                  !.requests = @ + 1,
                  !.got = ReadResult(off, ReadData(lazy.data, off, len), OK)]
  /\ UNCHANGED nonLazy

(***************************************************************************)
(* The context of the requests.  The variable cx holds one call of a       *)
(* method of s3Client under the caller's context ctx, which the caller can *)
(* cancel before the call and between its requests; every request is       *)
(* logged with the context it was issued under.  A request issued under a  *)
(* cancelled context fails with context.Canceled.                          *)
(***************************************************************************)
\* the contexts a request is issued under
CallerCtx == "ctx"
TODO == "context.TODO()"

\* the methods called
CtxMethods ==
  {"GetObject", "PutObject", "DeleteObject", "HeadObject", "DeleteBucket"}

\* a request as it was issued: cancelled says that the caller's context was
\* cancelled by then
IssuedUnder(req, under, cancelled, err) ==
  [req |-> req, under |-> under, cancelled |-> cancelled, err |-> err]

\* bucket and object say what the backend holds
CtxIdle ==
  [pc |-> "idle", method |-> "none", bucket |-> FALSE, object |-> FALSE,
   cancelled |-> FALSE, reqs |-> <<>>, ret |-> nil]

nonCtx == << clientVars, pool, retry, backoff, tree, sno, race, norm, oc,
             lazy, acc >>

\* the request a method makes at a place, and the context it passes
RequestAt(method, at) ==
  IF at \in {"validateBucket", "HeadObject.validateBucket",
             "worker.validateBucket"}
  THEN [req |-> "HeadBucket", under |-> CallerCtx]
  ELSE IF at = "Download" THEN [req |-> "GetObject", under |-> TODO]
  ELSE IF at = "worker.DeleteObject"
  THEN [req |-> "DeleteObject", under |-> CallerCtx]
  ELSE [req |-> at, under |-> CallerCtx]

\* what the backend answers to a request that is not cancelled
Answer(c, req) ==
  IF req = "HeadBucket" THEN (IF c.bucket THEN nil ELSE NotFound)
  ELSE IF ~c.bucket THEN NoSuchBucket
  ELSE IF req = "HeadObject" THEN (IF c.object THEN nil ELSE NotFound)
  ELSE IF req = "GetObject" THEN (IF c.object THEN nil ELSE NoSuchKey)
  ELSE nil

\* where the method goes after the request at a place returned err:
\* the next place, or "return", "exited" (log.Fatalf) or "blocked" (the
\* range over cos that is never closed)
After(c, at, err) ==
  IF at = "validateBucket"
  THEN IF err # nil THEN "return"
       ELSE IF c.method = "GetObject" THEN "HeadObject.validateBucket"
       ELSE IF c.method = "DeleteBucket" THEN "ListObjectsV2"
       ELSE c.method
  ELSE IF at = "HeadObject.validateBucket"
  THEN IF err # nil THEN "Download" ELSE "HeadObject"
  ELSE IF at = "HeadObject" /\ c.method = "GetObject"
  THEN IF err # nil THEN "return" ELSE "Download"
  ELSE IF at = "ListObjectsV2"
  THEN IF err # nil THEN "exited"
       ELSE IF c.object THEN "worker.validateBucket" ELSE "DeleteBucket"
  ELSE IF at = "worker.validateBucket"
  THEN IF err # nil THEN "return" ELSE "worker.DeleteObject"
  ELSE IF at = "worker.DeleteObject"
  THEN IF err # nil THEN "return" ELSE "blocked"
  ELSE "return"

\* the caller calls a method, with its context cancelled or not
CtxCall ==
  /\ cx.pc = "idle"
  /\ \E m \in CtxMethods, b \in BOOLEAN, o \in BOOLEAN, c \in BOOLEAN :
       cx' = [CtxIdle EXCEPT !.pc = "validateBucket", !.method = m,
                             !.bucket = b, !.object = b /\ o,
                             !.cancelled = c]
  /\ UNCHANGED nonCtx

\* the caller cancels its context while the call runs
CtxCancel ==
  /\ cx.pc \notin {"idle", "return", "exited"}
  /\ ~cx.cancelled
  /\ cx' = [cx EXCEPT !.cancelled = TRUE]
  /\ UNCHANGED nonCtx

\* the method issues the request of the place it is at and goes on
CtxRequest ==
  /\ cx.pc \notin {"idle", "return", "exited", "blocked"}
  /\ LET r == RequestAt(cx.method, cx.pc)
         err == IF r.under = CallerCtx /\ cx.cancelled THEN Canceled
                ELSE Answer(cx, r.req)
     IN cx' = [cx EXCEPT
                 !.reqs = Append(@, IssuedUnder(r.req, r.under, cx.cancelled, err)),
                 !.pc = After(cx, cx.pc, err),
                 !.ret = err]
  /\ UNCHANGED nonCtx

(***************************************************************************)
(* The accesses to the fields of one S3Node handle.  A method is the       *)
(* sequence of its steps: sno.mu.Lock(), sno.mu.Unlock(), and the reads    *)
(* and writes of the fields in, ctx, closed, withBuf, close, origIn and    *)
(* exit and the calls on the stream below ("stream").  The variable acc    *)
(* holds the mutex, where each goroutine stands in its method and the last *)
(* access with whether its goroutine held the mutex.                       *)
(***************************************************************************)
Step(do, field) == [do |-> do, field |-> field]
Lock == Step("Lock", "mu")
Unlock == Step("Unlock", "mu")
Rd(field) == Step("read", field)
Wr(field) == Step("write", field)

\* sno.Abandon() and sno.StopBuffering(): sno.in.(*asyncreader.AsyncReader)
AbandonSteps == << Rd("in"), Step("call", "stream") >>

\* sno.WithBuffer() on a handle without buffer, the size giving one
WithBufferSteps ==
  << Rd("withBuf"), Wr("withBuf"), Rd("ctx"), Rd("origIn"), Wr("in"),
     Wr("close") >>

\* sno.checkReadBefore(): sno.ctx.Err()
CheckSteps == << Rd("ctx") >>

\* the steps of the methods; UpdateReader is the one of a buffered handle
Program(m) ==
  IF m = "Read"
  THEN << Lock, Rd("in") >> \o CheckSteps
         \o << Step("call", "stream"), Unlock >>
  ELSE IF m = "WriteTo"
  THEN << Lock, Rd("in"), Unlock, Step("call", "stream") >> \o CheckSteps
  ELSE IF m = "accountStream.Read" THEN CheckSteps
  ELSE IF m = "AccountRead" THEN << Lock >> \o CheckSteps \o << Unlock >>
  ELSE IF m \in {"StopBuffering", "Abandon"} THEN AbandonSteps
  ELSE IF m = "WithBuffer" THEN WithBufferSteps
  ELSE IF m = "UpdateReader"
  THEN << Lock, Rd("withBuf") >> \o AbandonSteps
         \o << Wr("withBuf"), Wr("in"), Wr("ctx"), Wr("close"), Wr("origIn"),
               Wr("closed") >>
         \o WithBufferSteps \o << Unlock >>
  ELSE IF m = "SetStream" THEN << Lock, Wr("in"), Unlock >>
  ELSE IF m = "Close"
  THEN << Lock, Rd("closed"), Wr("closed"), Rd("close"),
          Step("call", "stream"), Unlock >>
  ELSE << Lock, Wr("exit"), Unlock >>

AccessMethods ==
  {"Read", "WriteTo", "accountStream.Read", "AccountRead", "StopBuffering",
   "Abandon", "WithBuffer", "UpdateReader", "SetStream", "Close", "Done"}

\* a goroutine outside the methods, and the access before the first
NotCalling == [method |-> "none", i |-> 0]
Access(by, s, held) == [by |-> by, do |-> s.do, field |-> s.field, held |-> held]
NoAccess == Access(0, Step("none", "none"), FALSE)

AccessIdle ==
  [mu |-> Unlocked, at |-> [p \in Procs |-> NotCalling], last |-> NoAccess]

nonAccess == << clientVars, pool, retry, backoff, tree, sno, race, norm, oc,
                lazy, cx >>

\* the step the goroutine p is about to take
StepOf(a, p) == Program(a.at[p].method)[a.at[p].i]

\* the goroutine p after its step: at the next one, or out of the method
Stepped(a, p) ==
  IF a.at[p].i = Len(Program(a.at[p].method)) THEN NotCalling
  ELSE [a.at[p] EXCEPT !.i = @ + 1]

\* a goroutine calls a method of the handle
AccessCall(p) ==
  /\ acc.at[p] = NotCalling
  /\ \E m \in AccessMethods : acc' = [acc EXCEPT !.at[p] = [method |-> m, i |-> 1]]
  /\ UNCHANGED nonAccess

\* sno.mu.Lock()
AccessLock(p) ==
  /\ acc.at[p] # NotCalling
  /\ StepOf(acc, p) = Lock
  /\ acc.mu = Unlocked
  /\ acc' = [acc EXCEPT !.mu = p, !.at[p] = Stepped(acc, p)]
  /\ UNCHANGED nonAccess

\* sno.mu.Unlock()
AccessUnlock(p) ==
  /\ acc.at[p] # NotCalling
  /\ StepOf(acc, p) = Unlock
  /\ acc' = [acc EXCEPT !.mu = Unlocked, !.at[p] = Stepped(acc, p)]
  /\ UNCHANGED nonAccess

\* a read or write of a field, or a call on the stream
AccessField(p) ==
  /\ acc.at[p] # NotCalling
  /\ StepOf(acc, p) \notin {Lock, Unlock}
  /\ acc' = [acc EXCEPT !.last = Access(p, StepOf(acc, p), acc.mu = p),
                        !.at[p] = Stepped(acc, p)]
  /\ UNCHANGED nonAccess

(***************************************************************************)
(* The specifications: each part of the program runs alone, the other      *)
(* parts stay as they start.                                               *)
(***************************************************************************)
ClientInit ==
  /\ buckets = {}
  /\ store = [b \in Names |-> EmptyBucket]
  /\ pc = "idle"
  /\ ret = Return("none", "", <<>>, <<>>, nil, NoValue)
  /\ calls = <<>>
  /\ name = ""
  /\ inV2 = 0
  /\ out = NoPage
  /\ idx = 0
  /\ wg = 0
  /\ cos = <<>>
  /\ cosClosed = 0
  /\ workers = <<>>
  /\ closers = <<>>
  /\ created = {}

Init ==
  /\ ClientInit
  /\ pool = PoolIdle
  /\ retry = RetryIdle
  /\ backoff = BackoffIdle
  /\ tree = TreeIdle
  /\ sno = HandleIdle
  /\ race = RaceIdle
  /\ norm = NormIdle
  /\ oc = OpenIdle
  /\ lazy = LazyIdle
  /\ cx = CtxIdle
  /\ acc = AccessIdle

Next ==
  \/ CallCreateBucket
  \/ CallHeadBucket
  \/ CallPutObject
  \/ CallHeadObject
  \/ CallGetObject
  \/ CallDeleteObject
  \/ DeleteBucketEnter
  \/ DeleteBucketStep

Spec == Init /\ [][Next]_vars

\* the scheduler runs every goroutine that can take a step
FairSpec == Spec /\ WF_vars(DeleteBucketStep)

InitPool == Init

NextPool ==
  \/ PoolList
  \/ PoolLoop
  \/ PoolWorker
  \/ PoolWgWait
  \/ PoolRange

SpecPool == InitPool /\ [][NextPool]_vars

NextRetry ==
  \/ RetryCall
  \/ RetryAttempt
  \/ RetryBackoff

SpecRetry == Init /\ [][NextRetry]_vars

NextBackoff == CallBackoffDelay

SpecBackoff == Init /\ [][NextBackoff]_vars

NextTree ==
  \/ TreeOnAdd
  \/ TreeAddFile

SpecTree == Init /\ [][NextTree]_vars

NextHandle ==
  \/ HandleNew
  \/ HandleCancel
  \/ HandleWithBuffer
  \/ HandleUpdateReader
  \/ HandleRead
  \/ HandleWriteTo
  \/ HandleWrapRead
  \/ HandleUnWrap
  \/ HandleSetStream
  \/ HandleClose
  \/ HandleDone

SpecHandle == Init /\ [][NextHandle]_vars

NextRace ==
  \/ RaceNew
  \/ \E p \in Callers :
       \/ RaceCall(p)
       \/ RaceReadLock(p)
       \/ RaceReadReturn(p)
       \/ RaceCloseLock(p)
       \/ RaceCloseStream(p)
       \/ RaceCloseReturn(p)

SpecRace == Init /\ [][NextRace]_vars

NextNorm == NormCompose

SpecNorm == Init /\ [][NextNorm]_vars

NextOpen ==
  \E p \in Procs :
    \/ OpenCall(p)
    \/ OpenLoopback(p)
    \/ OpenReturn(p)
    \/ CreateCall(p)
    \/ CreateLoopback(p)
    \/ ReleaseDecrement(p)
    \/ ReleaseFile(p)
    \/ UnlinkCall(p)
    \/ UnlinkBusy(p)
    \/ UnlinkLoopback(p)
    \/ RenameCall(p)
    \/ RenameBusy(p)
    \/ RenameBusyNew(p)
    \/ RenameLoopback(p)

SpecOpen == Init /\ [][NextOpen]_vars

NextLazy ==
  \/ LazyOnAdd
  \/ \E p \in Procs :
       \/ LazyOpenCall(p)
       \/ LazyOpenLock(p)
       \/ LazyOpenUnpack(p)
       \/ LazyRead(p)

SpecLazy == Init /\ [][NextLazy]_vars

NextCtx ==
  \/ CtxCall
  \/ CtxCancel
  \/ CtxRequest

SpecCtx == Init /\ [][NextCtx]_vars

NextAccess ==
  \E p \in Procs :
    \/ AccessCall(p)
    \/ AccessLock(p)
    \/ AccessUnlock(p)
    \/ AccessField(p)

SpecAccess == Init /\ [][NextAccess]_vars

(***************************************************************************)
(* Properties of the object store client.                                  *)
(***************************************************************************)
\* no request of the call failed for a reason other than the backend's state
NoFault(cs) == \A i \in 1..Len(cs) : cs[i].err # RequestError

\* every request of the call succeeded
AllSucceeded(cs) == \A i \in 1..Len(cs) : cs[i].err = nil

\* the call issued a request of this kind
Issued(cs, r) == \E i \in 1..Len(cs) : cs[i].req = r

\* every HeadBucket probe of the call reported that the bucket exists
ProbesShowExistence(cs) ==
  \A i \in 1..Len(cs) : cs[i].req = "HeadBucket" => cs[i].err = nil

\* the error kinds of the taxonomy: ErrInvalidBucketName ("Invalid Bucket
\* Name") is the validation error, the not-found errors are the backend's
IsNotFound(e) == e \in {NotFound, NoSuchKey, NoSuchBucket}

\* the step is a call of CreateBucket that has returned
CreateBucketReturns == pc = "idle" /\ ret'.op = "CreateBucket"

\* C1: for a bucket name of length <= 2 CreateBucket returns
\* ErrInvalidBucketName and no Bucket, and has issued no backend request
C1_ShortNameRejected ==
  (ret.op = "CreateBucket" /\ Len(ret.bucket) <= 2)
    => (ret.err = ErrInvalidBucketName /\ ret.val = NoValue /\ calls = <<>>)

C1_Witness ==
  ret.op = "CreateBucket" /\ ret.bucket = "ab" /\ Len(ret.bucket) = 2
    /\ ret.err = ErrInvalidBucketName

C3_CreatedBucketExists ==
  /\ [][ (CreateBucketReturns /\ Len(ret'.bucket) > 2
            /\ ret'.bucket \notin buckets /\ NoFault(calls'))
           => (/\ ret'.err = nil
               /\ ret'.val = Bucket(ret'.bucket)
               /\ Issued(calls', "CreateBucket")
               /\ ret'.bucket \in buckets') ]_vars
  /\ [] ( (ret.op = "HeadBucket" /\ ret.bucket \in created
             /\ NoFault(calls))
            => (ret.err = nil /\ ret.val = [ok |-> TRUE]) )

C3_Witness ==
  /\ ret.op = "HeadBucket"
  /\ ret.bucket = "abc"
  /\ ret.bucket \in created
  /\ ret.val = [ok |-> TRUE]

\* what an Object says about the content of the object it stands for: the
\* type has no field for the bytes, only Size and Data
Carries(o, bytes) == o.Size = Len(bytes) /\ (bytes # <<>> => o.Data # 0)

\* C4: a successful PutObject(bucket, key, bytes) directly followed by
\* GetObject(bucket, key) returns no error and an Object whose content is
\* bytes
C4_RoundTrip ==
  [][ (/\ pc = "idle"
       /\ ret.op = "PutObject" /\ ret.err = nil
       /\ ret'.op = "GetObject"
       /\ ret'.bucket = ret.bucket /\ ret'.path = ret.path
       /\ AllSucceeded(calls'))
        => (/\ ret'.err = nil
            /\ ret'.val # NoValue
            /\ Carries(ret'.val, ret.data)) ]_vars

\* C5: GetObject on an existing bucket for a key under which there is no
\* object (no request failing on its way) returns a not-found error and no
\* Object
C5_MissingKeyNotFound ==
  (/\ ret.op = "GetObject"
   /\ pc = "idle"
   /\ ret.bucket \in buckets
   /\ ~store[ret.bucket][CleanPath(ret.path)].present
   /\ NoFault(calls))
    => (IsNotFound(ret.err) /\ ret.val = NoValue)

C5_Witness ==
  /\ ret.op = "GetObject"
  /\ ret.bucket \in buckets
  /\ ~store[ret.bucket][CleanPath(ret.path)].present
  /\ NoFault(calls)
  /\ Issued(calls, "HeadObject")
  /\ ret.err = NotFound

\* DeleteBucket is between its probe and its return
InDeleteBucket == pc \in {"list", "loop", "range", "wait", "remove"}

\* DeleteBucket has returned to its caller
DeleteBucketReturned == pc = "idle" /\ ret.op = "DeleteBucket"

\* an object delete of the call has failed; the first one that did
FailedDeletes ==
  { i \in 1..Len(workers) : workers[i].state = "done" /\ workers[i].err # nil }
FirstFailed == CHOOSE i \in FailedDeletes : \A j \in FailedDeletes : i <= j

\* C6: DeleteBucket on an existing bucket, when every request succeeds,
\* returns no error with the bucket empty and gone
C6_DeleteBucketRemovesAll ==
  (pc = "list")
    ~> (\/ ~AllSucceeded(calls)
        \/ (/\ DeleteBucketReturned
            /\ ret.err = nil
            /\ store[name] = EmptyBucket
            /\ name \notin buckets))

\* C7: a DeleteBucket call on an existing bucket returns to its caller
C7_DeleteBucketTerminates ==
  InDeleteBucket ~> (pc = "idle" \/ pc = Exited)

\* C8: once an object delete of a DeleteBucket call has failed, the removal
\* request is not issued and the bucket exists, and no further delete is
\* started
C8_FailedDeleteStopsCall ==
  /\ [] (FailedDeletes # {}
           => (name \in buckets /\ ~Issued(calls, "DeleteBucket")))
  /\ [][ FailedDeletes # {} => Len(workers') <= Len(workers) ]_vars

C8_Witness ==
  /\ DeleteBucketReturned
  /\ FailedDeletes # {}
  /\ Len(out.Contents) = 2
  /\ Len(workers) = 1
  /\ name \in buckets

\* C9: if an object delete failed, DeleteBucket returns an error that is
\* not nil: the error of the first failed delete
C9_FirstDeleteErrorReturned ==
  (DeleteBucketReturned /\ FailedDeletes # {})
    => (ret.err # nil /\ ret.err = workers[FirstFailed].err)

\* the probe of the DeleteBucket call did not show that the bucket exists
ProbeShowsNoBucket ==
  calls # <<>> /\ calls[1].req = "HeadBucket" /\ calls[1].err # nil

\* C10: DeleteBucket on a bucket whose probe does not show existence returns
\* a not-found error and issues no listing, object delete or removal request
C10_MissingBucketNotFound ==
  (DeleteBucketReturned /\ ProbeShowsNoBucket)
    => (/\ IsNotFound(ret.err)
        /\ ~Issued(calls, "ListObjectsV2")
        /\ ~Issued(calls, "DeleteObject")
        /\ ~Issued(calls, "DeleteBucket"))

(***************************************************************************)
(* Properties of DeleteBucket's goroutines.                                *)
(***************************************************************************)
\* C11: at every moment of a DeleteBucket call the number of object deletes
\* in flight is at most MAX_GOROUTES, however many objects the page holds
C11_InFlightBounded == pool.running <= MAX_GOROUTES

\* a page of more objects than MAX_GOROUTES with a delete in flight
C11_Witness ==
  /\ pool.n > MAX_GOROUTES
  /\ pool.pc = "range"
  /\ pool.running > 0

\* every delete the call has started has completed
DeletesCompleted == \A i \in 1..Len(workers) : workers[i].state = "done"

\* the step issues the listing request of a page after the first
ListsNextPage ==
  /\ pc = "list"
  /\ Issued(calls, "ListObjectsV2")
  /\ Len(calls') = Len(calls) + 1

\* the step issues the bucket-removal request
RemovesBucket == pc = "remove" /\ Len(calls') = Len(calls) + 1

C14_DelayAtMostFiveMinutes ==
  backoff.pc = "returned" => DurLeq(backoff.retryTime, FiveMinutes)

\* a call whose product with the jitter is above five minutes
C14_Witness ==
  /\ backoff.pc = "returned"
  /\ backoff.attempt = 9
  /\ backoff.retryTime = FiveMinutes
  /\ ~DurLeq(BackoffDelay_NoCap(backoff.attempt, backoff.err, backoff.jitter,
                                backoff.sat), FiveMinutes)

\* C15: for each jitter factor BackoffDelay does not decrease with the
\* attempt number: the delay of attempt a is at most the delay of every
\* attempt b > a
C15_DelayNonDecreasing ==
  backoff.pc = "returned" =>
    \A b \in 0..LastAttempt :
      backoff.attempt < b =>
        DurLeq(backoff.retryTime,
               BackoffDelay(b, backoff.err, backoff.jitter, backoff.sat))

(***************************************************************************)
(* Properties of the tree builder.                                         *)
(***************************************************************************)
\* the object keys of the listing: its entries that are not directories
ObjectKeys ==
  { tree.listing[i] : i \in { j \in 1..Len(tree.listing) :
                                ~IsDir(tree.listing[j]) } }

\* the directory prefixes of the keys
DirPrefixes ==
  UNION { { SubSeq(k, 1, n) : n \in 1..(Len(k) - 1) } : k \in ObjectKeys }

\* C16: after the build every directory prefix of the keys is one Directory
\* node under its parent, every key is one File node under its deepest
\* directory, and the tree has no other node
C16_TreeOfKeys ==
  tree.pc = "built" =>
    tree.nodes = { Inode(d, Directory, <<>>) : d \in DirPrefixes }
                   \cup { Inode(k, File, k) : k \in ObjectKeys }

\* C17: the full path of every File node, the names of its ancestors and
\* its own joined with '/', is a key of the listing
C17_FilePathIsKey ==
  \A n \in tree.nodes : n.kind = File => n.path \in ObjectKeys

\* the nodes in the way of the entry f: a File where the path of f needs a
\* directory, or a Directory where f itself is to hang
InTheWay(nodes, f) ==
  { n \in nodes :
      \/ /\ n.kind = File
         /\ Len(n.path) < Len(Clean(f))
         /\ n.path = SubSeq(Clean(f), 1, Len(n.path))
      \/ /\ n.kind = Directory
         /\ n.path = Clean(f) }

\* the step adds an entry that meets a node of the other kind
ConflictStep ==
  /\ tree.pc = "adding"
  /\ ~IsDir(tree.listing[tree.i])
  /\ InTheWay(tree.nodes, tree.listing[tree.i]) # {}

\* C18: when a key needs a Directory where a File of that name exists, or a
\* File where a Directory exists, the builder signals a fatal error, and the
\* node that exists is neither replaced nor used as the other kind
C18_ConflictIsFatal ==
  [][ ConflictStep =>
        /\ tree'.err = FatalError
        /\ \A n \in InTheWay(tree.nodes, tree.listing[tree.i]) :
             /\ n \in tree'.nodes
             /\ n.kind = File => Subtree(tree'.nodes, n.path) = {n}
             /\ n.kind = Directory
                  => Subtree(tree'.nodes, n.path) = Subtree(tree.nodes, n.path)
      ]_vars

(***************************************************************************)
(* Properties of the S3Node handle.                                        *)
(***************************************************************************)
\* the Close invocations on streams so far
StreamCloses(n) == { i \in 1..Len(n.ops) : n.ops[i].op = "Close" }

\* only Close has been called on the handle, at least once
OnlyCloseCalled ==
  /\ sno.hist # <<>>
  /\ \A i \in 1..Len(sno.hist) : sno.hist[i] = "Close"

\* C19: in a sequence of Close calls on a handle the Close of the stream
\* below is invoked exactly once, by the first of them, and every later
\* Close returns nil and does nothing to the stream
C19_CloseOnce ==
  /\ [] ( (OnlyCloseCalled /\ sno.close # NoStream)
            => (/\ Cardinality(StreamCloses(sno)) = 1
                /\ sno.ops[1] = StreamOp("Close", sno.close)) )
  /\ [][ (sno.closed /\ sno'.hist = Append(sno.hist, "Close"))
           => (sno'.ret = Returned("Close", 0, nil) /\ sno'.ops = sno.ops)
       ]_vars

\* three calls of Close on a handle with a closer: the stream was closed
\* once and the last Close returned nil
C19_Witness ==
  /\ sno.hist = << "Close", "Close", "Close" >>
  /\ sno.close = Raw("s1")
  /\ sno.ops = << StreamOp("Close", Raw("s1")) >>
  /\ sno.ret = Returned("Close", 0, nil)

\* C20: Closed is terminal: once Close has completed no later operation on
\* the handle changes the closed flag from true to false
C20_ClosedIsTerminal == [][ sno.closed => sno'.closed ]_vars

\* the step is a call of the method op on the handle
CallOf(op) == sno'.hist = Append(sno.hist, op)

\* C21: every Read that starts after a Close of the same handle has
\* completed fails with an error, returns 0 bytes and does not invoke the
\* Read of the stream below
C21_ReadAfterCloseFails ==
  [][ (sno.closed /\ CallOf("Read"))
        => (/\ sno'.ret.n = 0
            /\ sno'.ret.err # nil
            /\ sno'.ops = sno.ops) ]_vars

(***************************************************************************)
(* Properties of the handle under concurrent calls.                        *)
(***************************************************************************)
\* the goroutines inside the Read and inside the Close of the stream below
InStreamRead == { p \in Callers : race.at[p] = "in.Read" }
InStreamClose == { p \in Callers : race.at[p] = "close.Close" }

\* C22: under any interleaving of concurrent Read and Close calls on one
\* handle the Read of the stream below never runs at the same time as its
\* Close, the stream is closed at most once, and only the holder of the
\* mutex is inside the stream
C22_ReadCloseExclusive ==
  /\ InStreamRead = {} \/ InStreamClose = {}
  /\ Cardinality(InStreamRead \cup InStreamClose) <= 1
  /\ \A p \in InStreamRead \cup InStreamClose : race.mu = p
  /\ race.closes + Cardinality(InStreamClose) <= 1

\* a Close is inside the stream while a Read and another Close wait for
\* the mutex
C22_Witness ==
  /\ InStreamClose # {}
  /\ \E p \in Callers : race.at[p] = "ReadLock"
  /\ \E p \in Callers : race.at[p] = "CloseLock"

\* the step invokes the Write of the writer given to WriteTo
WritesBelow ==
  \E i \in (Len(sno.ops) + 1)..Len(sno'.ops) : sno'.ops[i].op = "Write"

\* C23: a Read, a read through a WrapStream wrapper and a write made by
\* WriteTo that arrive when the context of the handle is cancelled return
\* the cancellation error with 0 bytes, and the Read or Write of the stream
\* below is not invoked
C23_CancelledFailsFirst ==
  [][ sno.ctxDone =>
        /\ (CallOf("Read") \/ CallOf("WrapRead"))
             => (/\ sno'.ret = Returned("Read", 0, Canceled)
                 /\ sno'.ops = sno.ops)
        /\ CallOf("WriteTo")
             => (/\ ~WritesBelow
                 /\ sno'.got.n > 0
                      => sno'.ret = Returned("WriteTo", 0, Canceled)) ]_vars

\* a WriteTo under a cancelled context that read bytes from the stream and
\* returned the cancellation error
C23_Witness ==
  /\ sno.ctxDone
  /\ sno.hist # <<>>
  /\ sno.hist[Len(sno.hist)] = "WriteTo"
  /\ sno.got.n > 0
  /\ sno.ret = Returned("WriteTo", 0, Canceled)

\* C24: on an open handle whose context is not cancelled every Read reports
\* exactly the byte count the Read of the stream below returned, with the
\* stream's error
C24_ReadReportsStreamCount ==
  [][ (CallOf("Read") /\ ~sno.closed /\ ~sno.ctxDone)
        => (/\ sno'.ret.n = sno'.got.n
            /\ sno'.ret.err = sno'.got.err) ]_vars

\* C25: UnWrap of an accounting reader returns the reader's inner stream and
\* a wrap function, and a Read of wrap(r) goes through the cancellation
\* check of the handle and delivers the bytes of r; UnWrap of another reader
\* returns the reader itself and the identity
C25_UnWrapRewraps ==
  [][ CallOf("UnWrap") =>
        LET u == sno'.unw
            readsR == /\ Len(sno'.ops) = Len(sno.ops) + 1
                      /\ sno'.ops[Len(sno'.ops)].op = "Read"
                      /\ sno'.ops[Len(sno'.ops)].on \in Streams
        IN IF u.in.kind \in Accounters
           THEN /\ u.unwrapped = IF u.in.kind = "S3Node" THEN sno.in
                                 ELSE u.in.in
                /\ u.wrap = "WrapStream"
                /\ IF sno.ctxDone
                   THEN /\ sno'.ret = Returned("Read", 0, Canceled)
                        /\ sno'.ops = sno.ops
                   ELSE /\ readsR
                        /\ sno'.ret = Returned("Read", sno'.got.n, sno'.got.err)
           ELSE /\ u.unwrapped = u.in.in
                /\ u.wrap = "identity"
                /\ readsR
                /\ sno'.ret = Returned("Read", sno'.got.n, sno'.got.err) ]_vars

\* the step is the first WithBuffer of the handle since its stream was set,
\* and asyncreader.New did not fail in it
FirstWithBuffer ==
  /\ CallOf("WithBuffer")
  /\ ~sno.withBuf
  /\ sno'.logged = 0

Signalled(n, st) ==
  \E i \in 1..Len(n.ops) :
    n.ops[i].op \in {"Close", "Abandon", "StopBuffering"} /\ n.ops[i].on = st

\* C27: after Done on a handle with a read-ahead buffer attached the
\* background task of the buffer has been signalled to stop, whether or not
\* Close was called on the handle
C27_DoneStopsReadAhead ==
  [][ (CallOf("Done") /\ sno.in.async /\ sno'.pc # "panicked")
        => Signalled(sno', sno.in) ]_vars

(***************************************************************************)
(* Properties of the object methods of the client.                         *)
(***************************************************************************)
\* the positions of the requests r among the requests of the call
RequestsOf(r) == { i \in 1..Len(calls) : calls[i].req = r }

\* the content length HeadObject gave to GetObject: that of the object when
\* the HeadObject request was made and succeeded, else 0
Declared ==
  IF \E i \in RequestsOf("HeadObject") : calls[i].err = nil
  THEN Len(store[ret.bucket][calls[Len(calls)].key].data)
  ELSE 0

\* the bytes the download of the call read
NumBytes == Len(store[ret.bucket][calls[Len(calls)].key].data)

\* the call was GetObject and its download, the last request, read
\* another number of bytes than declared
LengthMismatch ==
  /\ ret.op = "GetObject"
  /\ calls # <<>>
  /\ calls[Len(calls)].req = "GetObject"
  /\ calls[Len(calls)].err = nil
  /\ NumBytes # Declared

RECURSIVE Walk(_, _)
Walk(comps, at) ==
  IF comps = <<>> THEN at
  ELSE LET c == Head(comps)
       IN IF c = "" \/ c = "." THEN Walk(Tail(comps), at)
          ELSE IF c = ".."
               THEN Walk(Tail(comps),
                         IF at = <<>> THEN at ELSE SubSeq(at, 1, Len(at) - 1))
               ELSE Walk(Tail(comps), Append(at, c))

\* a key made of names only
InsideRoot(key) ==
  /\ key # <<>>
  /\ \A i \in 1..Len(key) : key[i] \notin {"", ".", ".."}

\* C29: for every path that names an object, the key each of PutObject,
\* GetObject, DeleteObject and HeadObject composes is the same, stays inside
\* the bucket root and has no '.', '..' or empty component, and two paths
\* that name the same place are given the same key
C29_KeyInsideRoot ==
  (norm.pc = "composed" /\ Walk(norm.path, <<>>) # <<>>) =>
    /\ norm.get = norm.put /\ norm.del = norm.put /\ norm.head = norm.put
    /\ InsideRoot(norm.put)
    /\ \A q \in NormPaths :
         Walk(q, <<>>) = Walk(norm.path, <<>>)
           => KeyOfPutObject(q) = norm.put

\* the object methods; the object-level request of each bears its name
ObjectMethods == {"PutObject", "GetObject", "DeleteObject", "HeadObject"}

\* C30: PutObject, GetObject, DeleteObject and HeadObject called for a
\* bucket of a valid name that does not exist (no request failing on its
\* way) return a not-found error, never a success, and issue no
\* object-level request
C30_MissingBucketObjectOps ==
  (/\ ret.op \in ObjectMethods
   /\ pc = "idle"
   /\ Len(ret.bucket) > 2
   /\ ret.bucket \notin buckets
   /\ NoFault(calls))
    => (/\ IsNotFound(ret.err)
        /\ \A r \in ObjectMethods : ~Issued(calls, r))

(***************************************************************************)
(* Further properties of the backoff and of DeleteBucket.                  *)
(***************************************************************************)
\* C40: for every attempt number, also one whose product of the base and
\* 3^attempt does not fit 64 bits, BackoffDelay returns a delay that is not
\* negative
C40_DelayNonNegative ==
  backoff.pc = "returned" => ~backoff.retryTime.neg

\* C33: in every execution of DeleteBucket the channel cos of a page is
\* closed at most once, no goroutine sends on it after it was closed (the
\* send would end the process), and when the call has returned every
\* goroutine it started has finished
C33_GoroutinesFinish ==
  /\ cosClosed <= 1
  /\ pc # Exited \/ (calls # <<>> /\ calls[Len(calls)].req = "ListObjectsV2")
  /\ DeleteBucketReturned
       => (/\ \A i \in 1..Len(workers) : workers[i].state = "done"
           /\ \A j \in 1..Len(closers) : closers[j] = "done")

\* a page that is truncated has been listed and the call is at its items
TruncatedPage ==
  /\ pc \in {"loop", "range", "wait"}
  /\ out.err = nil
  /\ out.IsTruncated

\* C34: after a truncated page the call issues the next listing request
\* with the continuation token the backend returned for the following
\* page, unless a failed delete ends the call before
C34_NextPageListed ==
  TruncatedPage ~> (\/ pc = "list" /\ inV2 = out.NextContinuationToken
                    \/ pc = "idle"
                    \/ pc = Exited)

\* a listing request of the DeleteBucket call has failed
ListingFailed ==
  /\ ret.op = "DeleteBucket"
  /\ \E i \in 1..Len(calls) :
       calls[i].req = "ListObjectsV2" /\ calls[i].err # nil

\* C35: when a listing request of DeleteBucket fails the call returns an
\* error to its caller, no bucket-removal request is issued and the process
\* keeps running
C35_ListFailureReturned ==
  ListingFailed
    => (/\ pc = "idle"
        /\ ret.err \notin {nil, Running, Exited}
        /\ ~Issued(calls, "DeleteBucket"))

(***************************************************************************)
(* Further properties of the handle.                                       *)
(***************************************************************************)
\* the last call made on the handle was op
LastCall(op) == sno.hist # <<>> /\ sno.hist[Len(sno.hist)] = op

\* the size of the object gives WithBuffer at least one buffer
SizeBuffered(n) == n.size >= asyncBufferSize \/ n.size = -1

C32_NoRemoveWhileOpen ==
  oc.last.op \in {"Unlink", "Rename"} => oc.last.handles = 0

\* C39: the openCount of a node is the number of Opens and Creates of it
\* that returned 0 minus the number of its Releases, it is never negative,
\* and an Open or Create that fails leaves it unchanged
C39_OpenCountBookkeeping ==
  /\ [] (\A i \in NodeIds :
           /\ oc.openCount[i] = oc.opened[i] - oc.released[i]
           /\ oc.openCount[i] >= 0)
  /\ [][ \A p \in Procs :
           (oc.at[p].pc = "increment" /\ oc.at[p].errno # OK
              /\ oc'.at[p].pc = "idle")
             => oc'.openCount = oc.openCount ]_vars

\* two Opens or Creates of the file "f" returned 0 and one of the handles
\* was released: the count is 1
C39_Witness ==
  /\ oc.opened[1] = 2
  /\ oc.released[1] = 1
  /\ oc.openCount[1] = 1
  /\ \A p \in Procs : oc.at[p].pc = "idle"

(***************************************************************************)
(* Properties of the file nodes of the tree.                               *)
(***************************************************************************)
\* C37: OnAdd reads no content; the content of the entry is read at most
\* once, by the first Open that succeeds, however the Opens interleave; a
\* Read after a successful Open returns bytes of that content
C37_ContentReadOnce ==
  /\ Len(lazy.loads) <= 1
  /\ lazy.requests = 0 => (lazy.loads = <<>> /\ lazy.data.isNil)
  /\ lazy.opened > 0 => (Len(lazy.loads) = 1 /\ lazy.data = Data(lazy.loads[1]))
  /\ lazy.got # NoRead
       => lazy.got.bytes \in
            { SubSeq(lazy.loads[1], lazy.got.off + 1, e) :
                e \in lazy.got.off..Len(lazy.loads[1]) }

\* two Opens succeeded and a Read followed: the content was read once
C37_Witness ==
  /\ lazy.requests = 3
  /\ lazy.opened = 2
  /\ Len(lazy.loads) = 1
  /\ lazy.entry = <<"x", "y">>
  /\ lazy.got = ReadResult(1, <<"y">>, OK)

(***************************************************************************)
(* Properties of the contexts of the requests.                             *)
(***************************************************************************)
\* C31: every request that GetObject, PutObject, DeleteObject, HeadObject
\* or DeleteBucket issues when the caller's context is cancelled is issued
\* under the caller's context, so that it does not run
C31_RequestsCarryContext ==
  \A i \in 1..Len(cx.reqs) :
    cx.reqs[i].cancelled
      => (cx.reqs[i].under = CallerCtx /\ cx.reqs[i].err = Canceled)

(***************************************************************************)
(* Properties of the accesses to a handle.                                 *)
(***************************************************************************)
\* C36: every read and write of a field of the handle and every call on
\* its stream is made by a goroutine that holds sno.mu, in every method
C36_AccessesHoldMutex ==
  acc.last # NoAccess => acc.last.held

====
